---------------------------- MODULE Spec2Model ----------------------------
(***************************************************************************)
(* ReleaseCompass: milestone dependency engine, the timeline client and    *)
(* the Globe server that relays milestone messages between clients.        *)
(*                                                                         *)
(* Time is counted in whole days.  A JavaScript Date is the record         *)
(* [k |-> "Date", t |-> day]; the same instant after JSON.stringify /      *)
(* JSON.parse is the ISO string [k |-> "String", t |-> day].  A Map keyed  *)
(* by milestone id is a sequence of milestone records with pairwise        *)
(* distinct ids, in insertion order (the order a JS Map iterates in).      *)
(* Milestone records carry every field of the Milestone type except the    *)
(* display coordinates timelinePosition and radialPosition.  A nullable    *)
(* reference is a sequence that is empty (null) or holds the one value.    *)
(***************************************************************************)
EXTENDS Integers, Sequences, FiniteSets, TLC

\* ------------------------------------------------------------------------
\* Bounds of the model
\* ------------------------------------------------------------------------
NumIds == 3
MaxDate == 1
MaxEdges == 2
NumClients == 2
MaxOps == 3
MaxPending == 0
\* The day the server object is constructed and the release day users pick.
Today == 0
ReleaseDay == 100

Ids == 1..NumIds
Days == 0..MaxDate
Clients == 1..NumClients
\* The timeline positions a pointer is dragged or double-clicked to, as days
\* before the release day.
DragOffsets == {0, 45}

\* ------------------------------------------------------------------------
\* Values
\* ------------------------------------------------------------------------
DateOf(t) == [k |-> "Date", t |-> t]
IsoOf(t) == [k |-> "String", t |-> t]

\* Date.prototype.toJSON followed by JSON.parse: a Date arrives as a string.
JsonDate(d) == IsoOf(d.t)

\* new Date(x) for a Date or an ISO string.
NewDate(d) == DateOf(d.t)

\* a < b as JavaScript evaluates it on Dates and ISO strings: two Dates
\* compare by time value, two strings compare as text (ISO strings of one
\* format order chronologically), a Date against a string compares a number
\* with NaN and is false.
JsLess(a, b) == a.k = b.k /\ a.t < b.t

Range(s) == {s[i] : i \in 1..Len(s)}

\* Array.prototype.includes
Includes(s, x) == x \in Range(s)

\* ------------------------------------------------------------------------
\* Map<string, Milestone> as a sequence in insertion order
\* ------------------------------------------------------------------------
MapKeys(ms) == [i \in 1..Len(ms) |-> ms[i].id]
MapHas(ms, id) == \E i \in 1..Len(ms) : ms[i].id = id
MapGet(ms, id) == ms[CHOOSE i \in 1..Len(ms) : ms[i].id = id]
MapSet(ms, m) ==
    IF MapHas(ms, m.id)
    THEN [i \in 1..Len(ms) |-> IF ms[i].id = m.id THEN m ELSE ms[i]]
    ELSE Append(ms, m)
MapDelete(ms, id) == SelectSeq(ms, LAMBDA m : m.id # id)

RECURSIVE MapFromArray(_)
\* new Map(array.map(m => [m.id, m]))
MapFromArray(arr) ==
    IF arr = << >> THEN << >>
    ELSE MapSet(MapFromArray(SubSeq(arr, 1, Len(arr) - 1)), arr[Len(arr)])

\* ------------------------------------------------------------------------
\* DependencyEngine
\* ------------------------------------------------------------------------
\* DependencyEngine.updateMilestones and the constructor
updateMilestones(arr) == MapFromArray(arr)

findDependentMilestones(ms, milestoneId) ==
    MapKeys(SelectSeq(ms, LAMBDA m : Includes(m.dependencies, milestoneId)))

RECURSIVE cascadeUpdate(_, _, _, _)
RECURSIVE cascadeEach(_, _, _, _)
\* st = [updates, visited, threw]; threw records the TypeError of calling
\* getTime() on a date that is a string, which aborts the whole traversal.
cascadeUpdate(ms, milestoneId, dateDiff, st) ==
    IF st.threw \/ milestoneId \in st.visited THEN st
    ELSE LET st1 == [st EXCEPT !.visited = @ \cup {milestoneId}]
         IN  IF ~MapHas(ms, milestoneId) THEN st1
             ELSE LET milestone == MapGet(ms, milestoneId)
                  IN  IF milestone.date.k # "Date"
                      THEN [st1 EXCEPT !.threw = TRUE]
                      ELSE cascadeEach(ms,
                               findDependentMilestones(ms, milestoneId),
                               dateDiff,
                               [st1 EXCEPT !.updates = Append(@,
                                   [milestoneId |-> milestoneId,
                                    newDate |-> DateOf(milestone.date.t + dateDiff)])])

\* dependents.forEach(dependentId => this.cascadeUpdate(...))
cascadeEach(ms, dependents, dateDiff, st) ==
    IF dependents = << >> THEN st
    ELSE cascadeEach(ms, Tail(dependents), dateDiff,
                     cascadeUpdate(ms, Head(dependents), dateDiff, st))

\* calculateCascadingUpdates without the recursion into cascadeUpdate: only
\* the direct dependents are shifted.
calculateCascadingUpdates_directOnly(ms, changedMilestoneId, newDate) ==
    LET st0 == [updates |-> << >>, visited |-> {}, threw |-> FALSE]
    IN  IF ~MapHas(ms, changedMilestoneId) THEN st0
        ELSE LET milestone == MapGet(ms, changedMilestoneId)
                 dependents == findDependentMilestones(ms, changedMilestoneId)
             IN  [st0 EXCEPT !.updates =
                     [i \in 1..Len(dependents) |->
                         [milestoneId |-> dependents[i],
                          newDate |-> DateOf(MapGet(ms, dependents[i]).date.t
                                             + newDate.t - milestone.date.t)]]]

calculateCascadingUpdates(ms, changedMilestoneId, newDate) ==
    LET st0 == [updates |-> << >>, visited |-> {}, threw |-> FALSE]
    IN  IF ~MapHas(ms, changedMilestoneId) THEN st0
        ELSE LET milestone == MapGet(ms, changedMilestoneId)
             IN  IF milestone.date.k # "Date"
                 THEN [st0 EXCEPT !.threw = TRUE]
                 ELSE cascadeEach(ms,
                          findDependentMilestones(ms, changedMilestoneId),
                          newDate.t - milestone.date.t, st0)

\* validateDependencyConstraints with <= and >= for < and >: a date equal to
\* a neighbour's is rejected.
validateDependencyConstraints_strict(ms, milestoneId, newDate) ==
    IF ~MapHas(ms, milestoneId)
    THEN [valid |-> FALSE, violations |-> << [kind |-> "not found", other |-> milestoneId] >>]
    ELSE LET milestone == MapGet(ms, milestoneId)
             badDeps == SelectSeq(milestone.dependencies,
                            LAMBDA depId : MapHas(ms, depId)
                                           /\ ~JsLess(MapGet(ms, depId).date, newDate))
             badDependents == SelectSeq(findDependentMilestones(ms, milestoneId),
                            LAMBDA depId : ~JsLess(newDate, MapGet(ms, depId).date))
             violations ==
                 [i \in 1..Len(badDeps) |-> [kind |-> "dependency", other |-> badDeps[i]]]
                 \o [i \in 1..Len(badDependents) |-> [kind |-> "dependent", other |-> badDependents[i]]]
         IN  [valid |-> Len(violations) = 0, violations |-> violations]

\* validateDependencyConstraints that stops at the first violated edge.
validateDependencyConstraints_firstOnly(ms, milestoneId, newDate) ==
    IF ~MapHas(ms, milestoneId)
    THEN [valid |-> FALSE, violations |-> << [kind |-> "not found", other |-> milestoneId] >>]
    ELSE LET milestone == MapGet(ms, milestoneId)
             badDeps == SelectSeq(milestone.dependencies,
                            LAMBDA depId : MapHas(ms, depId)
                                           /\ JsLess(newDate, MapGet(ms, depId).date))
             badDependents == SelectSeq(findDependentMilestones(ms, milestoneId),
                            LAMBDA depId : JsLess(MapGet(ms, depId).date, newDate))
             violations ==
                 [i \in 1..Len(badDeps) |-> [kind |-> "dependency", other |-> badDeps[i]]]
                 \o [i \in 1..Len(badDependents) |-> [kind |-> "dependent", other |-> badDependents[i]]]
         IN  [valid |-> Len(violations) = 0,
              violations |-> IF violations = << >> THEN << >> ELSE << violations[1] >>]

\* A violation names the kind of edge and the neighbour on it.
validateDependencyConstraints(ms, milestoneId, newDate) ==
    IF ~MapHas(ms, milestoneId)
    THEN [valid |-> FALSE, violations |-> << [kind |-> "not found", other |-> milestoneId] >>]
    ELSE LET milestone == MapGet(ms, milestoneId)
             badDeps == SelectSeq(milestone.dependencies,
                            LAMBDA depId : MapHas(ms, depId)
                                           /\ JsLess(newDate, MapGet(ms, depId).date))
             badDependents == SelectSeq(findDependentMilestones(ms, milestoneId),
                            LAMBDA depId : JsLess(MapGet(ms, depId).date, newDate))
             violations ==
                 [i \in 1..Len(badDeps) |-> [kind |-> "dependency", other |-> badDeps[i]]]
                 \o [i \in 1..Len(badDependents) |-> [kind |-> "dependent", other |-> badDependents[i]]]
         IN  [valid |-> Len(violations) = 0, violations |-> violations]

RECURSIVE findLongestPath(_, _, _)
RECURSIVE longestOverDeps(_, _, _, _)
\* The callee adds milestoneId to the set it was handed and gives every
\* dependency its own copy, new Set(visited).
findLongestPath(ms, milestoneId, visited) ==
    IF milestoneId \in visited THEN << >>
    ELSE IF ~MapHas(ms, milestoneId) THEN << >>
    ELSE LET milestone == MapGet(ms, milestoneId)
         IN  IF Len(milestone.dependencies) = 0 THEN << milestoneId >>
             ELSE << milestoneId >>
                  \o longestOverDeps(ms, milestone.dependencies,
                                     visited \cup {milestoneId}, << >>)

longestOverDeps(ms, deps, visited, longestSubPath) ==
    IF deps = << >> THEN longestSubPath
    ELSE LET subPath == findLongestPath(ms, Head(deps), visited)
         IN  longestOverDeps(ms, Tail(deps), visited,
                 IF Len(subPath) > Len(longestSubPath) THEN subPath ELSE longestSubPath)

Reverse(s) == [i \in 1..Len(s) |-> s[Len(s) + 1 - i]]

RECURSIVE longestOverEndNodes(_, _, _, _)
\* endNodes.forEach: one visited set is shared by the calls for all end
\* nodes, so it holds the end nodes already walked from.
longestOverEndNodes(ms, endNodes, visited, longestPath) ==
    IF endNodes = << >> THEN longestPath
    ELSE LET nodeId == Head(endNodes)
             path == findLongestPath(ms, nodeId, visited)
             visited1 == IF nodeId \notin visited /\ MapHas(ms, nodeId)
                         THEN visited \cup {nodeId} ELSE visited
         IN  longestOverEndNodes(ms, Tail(endNodes), visited1,
                 IF Len(path) > Len(longestPath) THEN path ELSE longestPath)

\* getCriticalPath without the final reverse(): the path runs latest first.
getCriticalPath_unreversed(ms) ==
    LET endNodes == SelectSeq(MapKeys(ms),
                        LAMBDA id : Len(findDependentMilestones(ms, id)) = 0)
    IN  longestOverEndNodes(ms, endNodes, {}, << >>)

getCriticalPath(ms) ==
    LET endNodes == SelectSeq(MapKeys(ms),
                        LAMBDA id : Len(findDependentMilestones(ms, id)) = 0)
    IN  Reverse(longestOverEndNodes(ms, endNodes, {}, << >>))

RECURSIVE hasPath(_, _, _, _)
RECURSIVE hasPathOverDeps(_, _, _, _)
\* Returns [found, visited]: visited is one Set mutated by every call.
hasPath(ms, sourceId, targetId, visited) ==
    IF sourceId = targetId THEN [found |-> TRUE, visited |-> visited]
    ELSE IF sourceId \in visited THEN [found |-> FALSE, visited |-> visited]
    ELSE LET visited1 == visited \cup {sourceId}
         IN  IF ~MapHas(ms, sourceId) THEN [found |-> FALSE, visited |-> visited1]
             ELSE hasPathOverDeps(ms, MapGet(ms, sourceId).dependencies, targetId, visited1)

hasPathOverDeps(ms, deps, targetId, visited) ==
    IF deps = << >> THEN [found |-> FALSE, visited |-> visited]
    ELSE LET r == hasPath(ms, Head(deps), targetId, visited)
         IN  IF r.found THEN r
             ELSE hasPathOverDeps(ms, Tail(deps), targetId, r.visited)

\* wouldCreateCycle searching from fromId to toId, the arguments swapped.
wouldCreateCycle_swapped(ms, fromId, toId) == hasPath(ms, fromId, toId, {}).found

wouldCreateCycle(ms, fromId, toId) == hasPath(ms, toId, fromId, {}).found

\* The lines to draw: one for each dependency that is in the engine, from
\* the dependency to the milestone.  The positions computed for the two
\* ends are left out.
getDependencyLines(ms) ==
    LET linesOf(milestone) ==
            LET known == SelectSeq(milestone.dependencies, LAMBDA depId : MapHas(ms, depId))
            IN  [i \in 1..Len(known) |-> [from |-> known[i], to |-> milestone.id]]
        F[i \in 0..Len(ms)] == IF i = 0 THEN << >> ELSE F[i - 1] \o linesOf(ms[i])
    IN  F[Len(ms)]

\* ------------------------------------------------------------------------
\* Milestone records
\* ------------------------------------------------------------------------
\* The fields createNewMilestone gives a milestone, with the given id, date
\* and dependencies.
Milestone(id, date, deps) ==
    [id |-> id, title |-> "New Milestone", date |-> date, budget |-> 1000,
     actualCost |-> 0, riskLevel |-> "medium", status |-> "planned",
     dependencies |-> deps, category |-> "other"]

\* The closed enumerations of the Milestone type.
RiskLevels == {"low", "medium", "high"}
Statuses == {"planned", "in-progress", "completed", "overdue"}
Categories == {"recording", "production", "marketing", "distribution", "legal", "other"}

RECURSIVE SortedSeq(_)
\* The elements of a finite set of integers in ascending order.
SortedSeq(S) ==
    IF S = {} THEN << >>
    ELSE LET x == CHOOSE y \in S : \A z \in S : y <= z
         IN  << x >> \o SortedSeq(S \ {x})

\* ------------------------------------------------------------------------
\* Milestone templates
\* ------------------------------------------------------------------------
Template(title, days, budget, category, deps, risk) ==
    [title |-> title, daysBeforeRelease |-> days, budget |-> budget,
     category |-> category, dependencies |-> deps, riskLevel |-> risk]

\* The templates with Artwork of the single declared after the Release
\* that depends on it.
MILESTONE_TEMPLATES_artworkLast ==
    [single |-> <<
        Template("Recording", 60, 500, "recording", << >>, "medium"),
        Template("Mixing", 45, 300, "production", << "Recording" >>, "low"),
        Template("Mastering", 30, 200, "production", << "Mixing" >>, "low"),
        Template("Release", 0, 200, "distribution", << "Mastering", "Artwork" >>, "low"),
        Template("Artwork", 21, 300, "marketing", << >>, "low") >>,
     ep |-> <<
        Template("Recording", 90, 2000, "recording", << >>, "medium"),
        Template("Mixing", 60, 1200, "production", << "Recording" >>, "medium"),
        Template("Mastering", 45, 800, "production", << "Mixing" >>, "low"),
        Template("Artwork", 30, 500, "marketing", << >>, "low"),
        Template("Distribution", 14, 500, "distribution", << "Mastering" >>, "low"),
        Template("Release", 0, 1500, "distribution", << "Distribution", "Artwork" >>, "medium") >>,
     album |-> <<
        Template("Pre-production", 180, 2000, "production", << >>, "low"),
        Template("Recording", 150, 8000, "recording", << "Pre-production" >>, "high"),
        Template("Mixing", 90, 4000, "production", << "Recording" >>, "medium"),
        Template("Mastering", 60, 2000, "production", << "Mixing" >>, "low"),
        Template("Artwork", 45, 1500, "marketing", << >>, "medium"),
        Template("Video", 30, 3000, "marketing", << "Mastering" >>, "high"),
        Template("PR Campaign", 21, 2500, "marketing", << "Artwork", "Video" >>, "medium"),
        Template("Distribution", 14, 1000, "distribution", << "Mastering", "Artwork" >>, "low"),
        Template("Release", 0, 2000, "distribution", << "Distribution", "PR Campaign" >>, "medium") >>]

MILESTONE_TEMPLATES ==
    [single |-> <<
        Template("Recording", 60, 500, "recording", << >>, "medium"),
        Template("Mixing", 45, 300, "production", << "Recording" >>, "low"),
        Template("Mastering", 30, 200, "production", << "Mixing" >>, "low"),
        Template("Artwork", 21, 300, "marketing", << >>, "low"),
        Template("Release", 0, 200, "distribution", << "Mastering", "Artwork" >>, "low") >>,
     ep |-> <<
        Template("Recording", 90, 2000, "recording", << >>, "medium"),
        Template("Mixing", 60, 1200, "production", << "Recording" >>, "medium"),
        Template("Mastering", 45, 800, "production", << "Mixing" >>, "low"),
        Template("Artwork", 30, 500, "marketing", << >>, "low"),
        Template("Distribution", 14, 500, "distribution", << "Mastering" >>, "low"),
        Template("Release", 0, 1500, "distribution", << "Distribution", "Artwork" >>, "medium") >>,
     album |-> <<
        Template("Pre-production", 180, 2000, "production", << >>, "low"),
        Template("Recording", 150, 8000, "recording", << "Pre-production" >>, "high"),
        Template("Mixing", 90, 4000, "production", << "Recording" >>, "medium"),
        Template("Mastering", 60, 2000, "production", << "Mixing" >>, "low"),
        Template("Artwork", 45, 1500, "marketing", << >>, "medium"),
        Template("Video", 30, 3000, "marketing", << "Mastering" >>, "high"),
        Template("PR Campaign", 21, 2500, "marketing", << "Artwork", "Video" >>, "medium"),
        Template("Distribution", 14, 1000, "distribution", << "Mastering", "Artwork" >>, "low"),
        Template("Release", 0, 2000, "distribution", << "Distribution", "PR Campaign" >>, "medium") >>]

ProjectTypes == {"single", "ep", "album"}

\* The id generateMilestones builds from the project id and the template
\* index; ids of different projects and indexes differ.
GeneratedId(projectId, index) == projectId * 100 + index

\* The id createNewMilestone builds from the clock and a random suffix: the
\* n-th such id.
NewMilestoneId(n) == 1000 + n

\* generateMilestones with each milestone dated daysBeforeRelease after the
\* release date.
generateMilestones_daysAfter(projectType, releaseDate, projectId) ==
    LET templates == MILESTONE_TEMPLATES[projectType]
        Declared(depTitle, i) == \E j \in 1..(i - 1) : templates[j].title = depTitle
        DepId(depTitle, i) ==
            LET j == CHOOSE k \in 1..(i - 1) :
                         /\ templates[k].title = depTitle
                         /\ \A l \in (k + 1)..(i - 1) : templates[l].title # depTitle
            IN  GeneratedId(projectId, j - 1)
        Resolved(i) == SelectSeq(templates[i].dependencies,
                                 LAMBDA depTitle : Declared(depTitle, i))
    IN  [i \in 1..Len(templates) |->
            [id |-> GeneratedId(projectId, i - 1),
             title |-> templates[i].title,
             date |-> DateOf(releaseDate.t + templates[i].daysBeforeRelease),
             budget |-> templates[i].budget,
             actualCost |-> 0,
             riskLevel |-> templates[i].riskLevel,
             status |-> "planned",
             dependencies |-> [n \in 1..Len(Resolved(i)) |-> DepId(Resolved(i)[n], i)],
             category |-> templates[i].category]]

generateMilestones(projectType, releaseDate, projectId) ==
    LET templates == MILESTONE_TEMPLATES[projectType]
        \* dependencyMap when template i is reached: the latest earlier
        \* template of that title, if any
        Declared(depTitle, i) == \E j \in 1..(i - 1) : templates[j].title = depTitle
        DepId(depTitle, i) ==
            LET j == CHOOSE k \in 1..(i - 1) :
                         /\ templates[k].title = depTitle
                         /\ \A l \in (k + 1)..(i - 1) : templates[l].title # depTitle
            IN  GeneratedId(projectId, j - 1)
        Resolved(i) == SelectSeq(templates[i].dependencies,
                                 LAMBDA depTitle : Declared(depTitle, i))
    IN  [i \in 1..Len(templates) |->
            [id |-> GeneratedId(projectId, i - 1),
             title |-> templates[i].title,
             date |-> DateOf(releaseDate.t - templates[i].daysBeforeRelease),
             budget |-> templates[i].budget,
             actualCost |-> 0,
             riskLevel |-> templates[i].riskLevel,
             status |-> "planned",
             dependencies |-> [n \in 1..Len(Resolved(i)) |-> DepId(Resolved(i)[n], i)],
             category |-> templates[i].category]]

SetMin(S) == CHOOSE x \in S : \A y \in S : x <= y
SetMax(S) == CHOOSE x \in S : \A y \in S : y <= x

\* The six-month window of an empty project.
DefaultWindowDays == 180

\* The padding of a timeline bound is a tenth of a span of whole days, so
\* the bounds of a timeline are held in tenths of a day.
Tenths(day) == 10 * day

\* calculateTimelineBounds with the padding taken inward.
calculateTimelineBounds_inward(arr, now) ==
    IF Len(arr) = 0
    THEN [start |-> Tenths(now), end |-> Tenths(now + DefaultWindowDays)]
    ELSE LET dates == {arr[i].date.t : i \in 1..Len(arr)}
             range == SetMax(dates) - SetMin(dates)
             padding == range
         IN  [start |-> Tenths(SetMin(dates)) + padding,
              end |-> Tenths(SetMax(dates)) - padding]

\* calculateTimelineBounds on an array of Date-dated milestones; range * 0.1
\* is the range in days counted in tenths of a day.
calculateTimelineBounds(arr, now) ==
    IF Len(arr) = 0
    THEN [start |-> Tenths(now), end |-> Tenths(now + DefaultWindowDays)]
    ELSE LET dates == {arr[i].date.t : i \in 1..Len(arr)}
             range == SetMax(dates) - SetMin(dates)
             padding == range
         IN  [start |-> Tenths(SetMin(dates)) - padding,
              end |-> Tenths(SetMax(dates)) + padding]

\* ------------------------------------------------------------------------
\* Serialization
\* ------------------------------------------------------------------------
\* JSON.stringify then JSON.parse of a milestone: the date becomes a string.
JsonMilestone(m) == [m EXCEPT !.date = JsonDate(@)]

JsonArray(arr) == [i \in 1..Len(arr) |-> JsonMilestone(arr[i])]

\* JSON.stringify of a Map: a Map has no enumerable own properties, so the
\* text is "{}" whatever the Map holds.  The parsed object is given as the
\* sequence of its entries.
JsonStringifyMap(ms) == << >>

\* new Map(Object.entries(obj))
MapFromEntries(obj) == MapFromArray(obj)

\* ------------------------------------------------------------------------
\* FinancialEngine
\* ------------------------------------------------------------------------
RECURSIVE SumOver(_, _)
SumOver(arr, field) ==
    IF arr = << >> THEN 0 ELSE arr[1][field] + SumOver(Tail(arr), field)

Min2(a, b) == IF a < b THEN a ELSE b
Max2(a, b) == IF a > b THEN a ELSE b
Abs(a) == IF a < 0 THEN -a ELSE a

RECURSIVE SortByDate(_)
\* Array.prototype.sort with the comparator that subtracts the getTime() of
\* the dates: a stable sort by ascending date.
SortByDate(arr) ==
    IF arr = << >> THEN << >>
    ELSE LET rest == SortByDate(Tail(arr))
             x == arr[1]
             before == SelectSeq(rest, LAMBDA y : y.date.t < x.date.t)
             after == SelectSeq(rest, LAMBDA y : ~(y.date.t < x.date.t))
         IN  before \o << x >> \o after

RECURSIVE SumGaps(_)
\* the loop over the sorted milestones: the days between neighbours, added up
SumGaps(sorted) ==
    IF Len(sorted) < 2 THEN 0
    ELSE Abs(sorted[2].date.t - sorted[1].date.t) + SumGaps(Tail(sorted))

\* calculateTimelineCompression over the array as handed in, without the
\* sort by date.
calculateTimelineCompression_unsorted(arr) ==
    IF Len(arr) < 2 THEN 0
    ELSE LET sorted == arr
             totalDays == SumGaps(sorted)
             gapCount == Len(sorted) - 1
         IN  IF totalDays >= 14 * gapCount /\ totalDays <= 30 * gapCount THEN 10
             ELSE IF totalDays >= 7 * gapCount /\ totalDays < 14 * gapCount THEN 50
             ELSE IF totalDays < 7 * gapCount THEN 90
             ELSE 30

\* avgDaysBetween is totalDays / gapCount; the thresholds are compared with
\* gapCount multiplied out.
calculateTimelineCompression(arr) ==
    IF Len(arr) < 2 THEN 0
    ELSE LET sorted == SortByDate(arr)
             totalDays == SumGaps(sorted)
             gapCount == Len(sorted) - 1
         IN  IF totalDays >= 14 * gapCount /\ totalDays <= 30 * gapCount THEN 10
             ELSE IF totalDays >= 7 * gapCount /\ totalDays < 14 * gapCount THEN 50
             ELSE IF totalDays < 7 * gapCount THEN 90
             ELSE 30

RECURSIVE ProductSeq(_)
ProductSeq(s) == IF s = << >> THEN 1 ELSE s[1] * ProductSeq(Tail(s))

RECURSIVE SumSeq(_)
SumSeq(s) == IF s = << >> THEN 0 ELSE s[1] + SumSeq(Tail(s))

\* calculateProjectedOverrun over amounts that are not negative.  The
\* result is [kind |-> "finite", num, den] for the number num / den,
\* [kind |-> "Infinity"] or [kind |-> "NaN"].  overrunRate is held as
\* rateNum / rateDen, with rateDen the number of completed milestones times
\* the budgets of those over budget; it is Infinity when a completed
\* milestone has spent on a budget of 0.
ProjectedOverrunOf(completedMilestones, inProgressMilestones, plannedMilestones) ==
    LET \* the product of f over the elements of an array
        ProductOver(arr, f(_)) == ProductSeq([i \in 1..Len(arr) |-> f(arr[i])])
        \* reduce((sum, m) => sum + f(m), 0)
        SumWith(arr, f(_)) == SumSeq([i \in 1..Len(arr) |-> f(arr[i])])
        Overrun(m) == m.actualCost - m.budget
        OverBudget(m) == Overrun(m) > 0
        rateInfinite == \E i \in 1..Len(completedMilestones) :
                            /\ OverBudget(completedMilestones[i])
                            /\ completedMilestones[i].budget = 0
        budgets == ProductOver(completedMilestones,
                       LAMBDA m : IF OverBudget(m) THEN m.budget ELSE 1)
        rateDen == IF Len(completedMilestones) > 0
                   THEN budgets * Len(completedMilestones) ELSE 1
        rateNum == SumWith(completedMilestones,
                       LAMBDA m : IF OverBudget(m)
                                  THEN Overrun(m) * (budgets \div m.budget) ELSE 0)
        actualOverrun == SumWith(completedMilestones, LAMBDA m : Max2(0, Overrun(m)))
        open == inProgressMilestones \o plannedMilestones
    IN  IF rateInfinite
        THEN IF \E i \in 1..Len(open) : open[i].budget = 0
             THEN [kind |-> "NaN"]
             ELSE IF Len(open) > 0 THEN [kind |-> "Infinity"]
             ELSE [kind |-> "finite", num |-> actualOverrun, den |-> 1]
        ELSE [kind |-> "finite",
              num |-> actualOverrun * rateDen
                      + SumWith(inProgressMilestones,
                            LAMBDA m : Max2(m.budget * rateNum, Overrun(m) * rateDen))
                      + SumWith(plannedMilestones, LAMBDA m : m.budget * rateNum),
              den |-> rateDen]

\* calculateProjectedOverrun with the overdue milestones counted among the
\* planned ones.
calculateProjectedOverrun_overdueAsPlanned(arr) ==
    ProjectedOverrunOf(
        SelectSeq(arr, LAMBDA m : m.status = "completed"),
        SelectSeq(arr, LAMBDA m : m.status = "in-progress"),
        SelectSeq(arr, LAMBDA m : m.status \in {"planned", "overdue"}))

calculateProjectedOverrun(arr) ==
    ProjectedOverrunOf(
        SelectSeq(arr, LAMBDA m : m.status = "completed"),
        SelectSeq(arr, LAMBDA m : m.status = "in-progress"),
        SelectSeq(arr, LAMBDA m : m.status = "planned"))

\* The baselines per project type.
PROJECT_BUDGETS == [single |-> 1500, ep |-> 6500, album |-> 25000]

\* The thresholds, as the percentages they are compared as (threshold *
\* 100), and the impacts in hundredths of the baseline.
COMPRESSION_LEVELS ==
    [mild |-> [threshold |-> 85, impact |-> 5],
     moderate |-> [threshold |-> 70, impact |-> 15],
     severe |-> [threshold |-> 50, impact |-> 30]]

\* calculateCompressionImpact with the thresholds tested from the highest:
\* mild, then moderate, then severe.
calculateCompressionImpact_mildFirst(arr, projectType) ==
    LET compressionScore == calculateTimelineCompression(arr)
        baseRevenue == PROJECT_BUDGETS[projectType]
    IN  IF compressionScore >= COMPRESSION_LEVELS.mild.threshold
        THEN [level |-> "mild",
              revenueImpact |-> (baseRevenue * COMPRESSION_LEVELS.mild.impact) \div 100]
        ELSE IF compressionScore >= COMPRESSION_LEVELS.moderate.threshold
        THEN [level |-> "moderate",
              revenueImpact |-> (baseRevenue * COMPRESSION_LEVELS.moderate.impact) \div 100]
        ELSE IF compressionScore >= COMPRESSION_LEVELS.severe.threshold
        THEN [level |-> "severe",
              revenueImpact |-> (baseRevenue * COMPRESSION_LEVELS.severe.impact) \div 100]
        ELSE [level |-> "optimal", revenueImpact |-> 0]

\* The result without its message.  Every baseline is a multiple of 100, so
\* the impact is a whole amount.
calculateCompressionImpact(arr, projectType) ==
    LET compressionScore == calculateTimelineCompression(arr)
        baseRevenue == PROJECT_BUDGETS[projectType]
    IN  IF compressionScore >= COMPRESSION_LEVELS.severe.threshold
        THEN [level |-> "severe",
              revenueImpact |-> (baseRevenue * COMPRESSION_LEVELS.severe.impact) \div 100]
        ELSE IF compressionScore >= COMPRESSION_LEVELS.moderate.threshold
        THEN [level |-> "moderate",
              revenueImpact |-> (baseRevenue * COMPRESSION_LEVELS.moderate.impact) \div 100]
        ELSE IF compressionScore >= COMPRESSION_LEVELS.mild.threshold
        THEN [level |-> "mild",
              revenueImpact |-> (baseRevenue * COMPRESSION_LEVELS.mild.impact) \div 100]
        ELSE [level |-> "optimal", revenueImpact |-> 0]

RiskLevelScore(riskLevel) ==
    IF riskLevel = "high" THEN 100 ELSE IF riskLevel = "medium" THEN 50 ELSE 10

RECURSIVE SumRiskLevels(_)
SumRiskLevels(arr) ==
    IF arr = << >> THEN 0
    ELSE RiskLevelScore(arr[1].riskLevel) + SumRiskLevels(Tail(arr))

\* calculateRiskScore without the Math.max(0, ...) around the overrun
\* percentage: spending under budget counts as a negative overrun.
calculateRiskScore_noFloor(arr) ==
    IF Len(arr) = 0 THEN 0
    ELSE LET length == Len(arr)
             riskLevelSum == SumRiskLevels(arr)
             compressionScore == calculateTimelineCompression(arr)
             totalBudget == SumOver(arr, "budget")
             totalActual == SumOver(arr, "actualCost")
             overrunDen == IF totalBudget > 0 THEN totalBudget ELSE 1
             overrunNum == IF totalBudget > 0
                           THEN Min2(100 * totalBudget,
                                     200 * (totalActual - totalBudget))
                           ELSE 0
             denominator == 10 * length * overrunDen
             numerator == 4 * riskLevelSum * overrunDen
                          + 3 * compressionScore * length * overrunDen
                          + 3 * overrunNum * length
         IN  Min2(100, (2 * numerator + denominator) \div (2 * denominator))

\* calculateRiskScore with the overrun percentage multiplied by 100, not 200.
calculateRiskScore_overrunTimes100(arr) ==
    IF Len(arr) = 0 THEN 0
    ELSE LET length == Len(arr)
             riskLevelSum == SumRiskLevels(arr)
             compressionScore == calculateTimelineCompression(arr)
             totalBudget == SumOver(arr, "budget")
             totalActual == SumOver(arr, "actualCost")
             overrunDen == IF totalBudget > 0 THEN totalBudget ELSE 1
             overrunNum == IF totalBudget > 0
                           THEN Min2(100 * totalBudget,
                                     100 * Max2(0, totalActual - totalBudget))
                           ELSE 0
             denominator == 10 * length * overrunDen
             numerator == 4 * riskLevelSum * overrunDen
                          + 3 * compressionScore * length * overrunDen
                          + 3 * overrunNum * length
         IN  Min2(100, (2 * numerator + denominator) \div (2 * denominator))

\* The score is riskLevelScore * 0.4 + compressionScore * 0.3 +
\* overrunScore * 0.3 with riskLevelScore a mean and overrunScore a quotient
\* by totalBudget.  It is computed here as the exact fraction
\* numerator / denominator over the common denominator 10 * length *
\* totalBudget, and Math.round as the floor of the fraction plus one half.
calculateRiskScore(arr) ==
    IF Len(arr) = 0 THEN 0
    ELSE LET length == Len(arr)
             riskLevelSum == SumRiskLevels(arr)
             compressionScore == calculateTimelineCompression(arr)
             totalBudget == SumOver(arr, "budget")
             totalActual == SumOver(arr, "actualCost")
             \* overrunScore = overrunNum / overrunDen
             overrunDen == IF totalBudget > 0 THEN totalBudget ELSE 1
             overrunNum == IF totalBudget > 0
                           THEN Min2(100 * totalBudget,
                                     200 * Max2(0, totalActual - totalBudget))
                           ELSE 0
             denominator == 10 * length * overrunDen
             numerator == 4 * riskLevelSum * overrunDen
                          + 3 * compressionScore * length * overrunDen
                          + 3 * overrunNum * length
         IN  Min2(100, (2 * numerator + denominator) \div (2 * denominator))

\* The ids of the milestones that are a dependency of another, are high
\* risk or are overdue, sorted by date.
identifyCriticalPath(arr) ==
    LET isDependency == UNION {Range(arr[i].dependencies) : i \in 1..Len(arr)}
        picked == SelectSeq(arr, LAMBDA m : \/ m.id \in isDependency
                                            \/ m.riskLevel = "high"
                                            \/ m.status = "overdue")
        sorted == SortByDate(picked)
    IN  [i \in 1..Len(sorted) |-> sorted[i].id]

\* The summary without projectedOverrun and lastUpdated.
calculateFinancialSummary(arr) ==
    [totalBudget |-> SumOver(arr, "budget"),
     totalActualCost |-> SumOver(arr, "actualCost"),
     riskScore |-> calculateRiskScore(arr),
     criticalPath |-> identifyCriticalPath(arr)]

\* ------------------------------------------------------------------------
\* ProjectStorage
\* ------------------------------------------------------------------------
\* localStorage is ls = [current, projects]: the current-project slot, null
\* or the stored project, and the projects list.  A stored project is
\* [project, milestones]; an entry of the list is the project's id and
\* updatedAt, the other fields of the summary left out.
RecentProjects == 20

\* sort((a, b) => b.updatedAt.getTime() - a.updatedAt.getTime()): a stable
\* sort, the latest updatedAt first.  An entry goes behind the entries with
\* a later updatedAt and the entries before it with the same updatedAt.
SortByUpdatedAtDesc(projects) ==
    LET n == Len(projects)
        ahead(i) == {j \in 1..n :
                        \/ projects[j].updatedAt > projects[i].updatedAt
                        \/ projects[j].updatedAt = projects[i].updatedAt /\ j < i}
    IN  [k \in 1..n |->
            projects[CHOOSE i \in 1..n : Cardinality(ahead(i)) = k - 1]]

\* now is the time new Date() gives for updatedAt.
updateProjectsList(projects, project, now) ==
    LET projectSummary == [id |-> project.id, updatedAt |-> now]
        found == {i \in 1..Len(projects) : projects[i].id = project.id}
        listed == IF found # {}
                  THEN [projects EXCEPT ![SetMin(found)] = projectSummary]
                  ELSE Append(projects, projectSummary)
        sorted == SortByUpdatedAtDesc(listed)
    IN  SubSeq(sorted, 1, Min2(RecentProjects, Len(sorted)))

saveCurrentProject(ls, storedProject, now) ==
    [current |-> << storedProject >>,
     projects |-> updateProjectsList(ls.projects, storedProject.project, now)]

deleteProject(ls, projectId) ==
    [current |-> IF ls.current # << >> /\ ls.current[1].project.id = projectId
                 THEN << >> ELSE ls.current,
     projects |-> SelectSeq(ls.projects, LAMBDA p : p.id # projectId)]

\* ------------------------------------------------------------------------
\* State
\* ------------------------------------------------------------------------
VARIABLES
    store,          \* server: timelineState.milestones
    conn,           \* server: per connection "closed", "timeline" or "globe"
    toServer,       \* per client, the messages sent and not yet handled by the server
    toClient,       \* per client, the messages sent to it and not yet handled
    milestones,     \* client: the milestones state
    engine,         \* client: dependencyEngine.current, null or the engine's Map
    timeline,       \* client: timelineStart and timelineEnd
    currentProject, \* client: currentProject, null or the project
    selected,       \* client: selectedMilestone, null or the milestone
    storage,        \* client: the localStorage of its browser, the current-project
                    \* slot and the projects list
    summary,        \* client: financialSummary, null or the summary
    ops,            \* how many user operations have happened; it also serves as the
                    \* clock and random suffix that make generated ids distinct
    lastDrag,       \* per client, what its latest handleMilestoneDrag call did
    lastEdit,       \* the latest milestone-update or milestone-delete sent from the
                    \* canvas or the editor, null or its record
    em,             \* the Map of the engine under query
    res,            \* the latest query and what it returned
    renderer        \* the TimelineCylinderRenderer of a canvas: isDragging,
                    \* selectedMilestone, mousePosition and the events its
                    \* listeners have handled

sysvars == << store, conn, toServer, toClient, milestones, engine, timeline,
              currentProject, selected, storage, summary, ops, lastDrag, lastEdit,
              renderer >>

\* What the listeners of a renderer leave alone.
nonrenderer == << store, conn, toServer, toClient, milestones, engine, timeline,
                 currentProject, selected, storage, summary, ops, lastDrag,
                 lastEdit, em, res >>

vars == << store, conn, toServer, toClient, milestones, engine, timeline,
           currentProject, selected, storage, summary, ops, lastDrag, lastEdit,
           em, res, renderer >>

\* The length of the window a client and the server start with.
YearDays == 365

\* The localStorage of a browser that has stored nothing.
EmptyStorage == [current |-> << >>, projects |-> << >>]

\* A renderer as constructed.
NewRenderer ==
    [isDragging |-> FALSE, selectedMilestone |-> << >>,
     mousePosition |-> [x |-> 0, y |-> 0], events |-> << >>]

InitExceptStorage ==
    /\ store = << >>
    /\ conn = [c \in Clients |-> "closed"]
    /\ toServer = [c \in Clients |-> << >>]
    /\ toClient = [c \in Clients |-> << >>]
    /\ milestones = [c \in Clients |-> << >>]
    /\ engine = [c \in Clients |-> << >>]
    /\ timeline = [c \in Clients |-> [start |-> Tenths(Today), end |-> Tenths(Today + YearDays)]]
    /\ currentProject = [c \in Clients |-> << >>]
    /\ selected = [c \in Clients |-> << >>]
    /\ summary = [c \in Clients |-> << >>]
    /\ ops = 0
    /\ lastDrag = [c \in Clients |-> << >>]
    /\ lastEdit = << >>
    /\ renderer = NewRenderer

SysInit ==
    /\ InitExceptStorage
    /\ storage = [c \in Clients |-> EmptyStorage]

\* The dependencies a milestone gets from an edge set: <<i, j>> says that
\* milestone i lists j in its dependencies.
DepsFrom(E, i) == SortedSeq({j \in Ids : << i, j >> \in E})

\* The sets of at most MaxEdges edges leaving the milestones 1..n.
EdgeSets(n) == {E \in SUBSET ((1..n) \X Ids) : Cardinality(E) <= MaxEdges}

NoResult == [op |-> "none"]

\* The engine is constructed over a milestone array holding the ids 1..n for
\* some n <= NumIds, each milestone dated in Days, with at most MaxEdges
\* dependency edges in all.  An edge may point at the milestone itself,
\* close a cycle, or name an id of Ids that is not in the array.
EngineInit ==
    /\ \E n \in 0..NumIds : \E E \in EdgeSets(n) : \E d \in [1..n -> Days] :
           em = updateMilestones(
                    [i \in 1..n |-> Milestone(i, DateOf(d[i]), DepsFrom(E, i))])
    /\ res = NoResult
    /\ SysInit

\* QueryCascade over a cascadeUpdate that sets the shifted date on the
\* milestone records of the Map instead of only listing it.
QueryCascade_inPlace(id, day) ==
    /\ res = NoResult
    /\ LET out == calculateCascadingUpdates(em, id, DateOf(day))
           Shifted(milestone) ==
               LET hits == SelectSeq(out.updates,
                               LAMBDA update : update.milestoneId = milestone.id)
               IN  IF hits = << >> THEN milestone
                   ELSE [milestone EXCEPT !.date = hits[1].newDate]
       IN  /\ res' = [op |-> "cascade", id |-> id, newDate |-> DateOf(day), out |-> out]
           /\ em' = [i \in 1..Len(em) |-> Shifted(em[i])]
    /\ UNCHANGED sysvars

QueryCascade(id, day) ==
    /\ res = NoResult
    /\ res' = [op |-> "cascade", id |-> id, newDate |-> DateOf(day),
               out |-> calculateCascadingUpdates(em, id, DateOf(day))]
    /\ UNCHANGED << em, sysvars >>

QueryValidate(id, day) ==
    /\ res = NoResult
    /\ res' = [op |-> "validate", id |-> id, newDate |-> DateOf(day),
               out |-> validateDependencyConstraints(em, id, DateOf(day))]
    /\ UNCHANGED << em, sysvars >>

QueryCycle(a, b) ==
    /\ res = NoResult
    /\ res' = [op |-> "cycle", fromId |-> a, toId |-> b,
               out |-> wouldCreateCycle(em, a, b)]
    /\ UNCHANGED << em, sysvars >>

QueryCriticalPath ==
    /\ res = NoResult
    /\ res' = [op |-> "criticalPath", out |-> getCriticalPath(em)]
    /\ UNCHANGED << em, sysvars >>

QueryDependencyLines ==
    /\ res = NoResult
    /\ res' = [op |-> "dependencyLines", out |-> getDependencyLines(em)]
    /\ UNCHANGED << em, sysvars >>

\* The FinancialEngine functions are static: they are handed an array, here
\* the values of the Map under query.
QueryFinancialSummary ==
    /\ res = NoResult
    /\ res' = [op |-> "financialSummary", out |-> calculateFinancialSummary(em)]
    /\ UNCHANGED << em, sysvars >>

QueryRiskScore ==
    /\ res = NoResult
    /\ res' = [op |-> "riskScore", out |-> calculateRiskScore(em)]
    /\ UNCHANGED << em, sysvars >>

QueryTimelineCompression ==
    /\ res = NoResult
    /\ res' = [op |-> "timelineCompression", out |-> calculateTimelineCompression(em)]
    /\ UNCHANGED << em, sysvars >>

EngineNext ==
    \/ \E id \in Ids, day \in Days : QueryCascade(id, day)
    \/ \E id \in Ids, day \in Days : QueryValidate(id, day)
    \/ \E a \in Ids, b \in Ids : QueryCycle(a, b)
    \/ QueryCriticalPath
    \/ QueryDependencyLines
    \/ QueryFinancialSummary

SpecEngine == EngineInit /\ [][EngineNext]_vars

\* ------------------------------------------------------------------------
\* The traversals of the DependencyEngine, one call at a step
\* ------------------------------------------------------------------------
\* A traversal under way is res = [op |-> "walk", kind, stack, visited, out,
\* calls]: stack holds the calls still to be made, the next one first, so a
\* call's own recursive calls are made before the later calls of its
\* caller's loop; calls counts the calls made.  The traversal has returned
\* when the stack is empty.  A traversal is followed for MaxCalls calls.
MaxCalls == 12

Walking(kind) ==
    res.op = "walk" /\ res.kind = kind /\ res.stack # << >> /\ res.calls < MaxCalls

\* calculateCascadingUpdates up to its loop over the dependents, which
\* calls cascadeUpdate for those not visited.
StartCalculateCascadingUpdates(changedMilestoneId) ==
    /\ res = NoResult
    /\ res' = [op |-> "walk", kind |-> "cascade", changed |-> changedMilestoneId,
               stack |-> IF MapHas(em, changedMilestoneId)
                         THEN findDependentMilestones(em, changedMilestoneId)
                         ELSE << >>,
               visited |-> {}, out |-> << >>, calls |-> 0]
    /\ UNCHANGED << em, sysvars >>

\* One call of cascadeUpdate: out lists the ids it has pushed an update for.
StepCascadeUpdate ==
    /\ Walking("cascade")
    /\ LET milestoneId == Head(res.stack)
           called == [res EXCEPT !.stack = Tail(@), !.calls = @ + 1]
       IN  res' = IF milestoneId \in res.visited THEN called
                  ELSE IF ~MapHas(em, milestoneId)
                  THEN [called EXCEPT !.visited = @ \cup {milestoneId}]
                  ELSE [called EXCEPT
                           !.visited = @ \cup {milestoneId},
                           !.out = Append(@, milestoneId),
                           !.stack = findDependentMilestones(em, milestoneId) \o @]
    /\ UNCHANGED << em, sysvars >>

\* wouldCreateCycle: the first call of hasPath, from toId towards fromId.
StartWouldCreateCycle(fromId, toId) ==
    /\ res = NoResult
    /\ res' = [op |-> "walk", kind |-> "cycle", source |-> toId, target |-> fromId,
               stack |-> << toId >>, visited |-> {}, out |-> FALSE, calls |-> 0]
    /\ UNCHANGED << em, sysvars >>

\* One call of hasPath with the visited set handed on but not consulted.
StepHasPath_revisiting ==
    /\ Walking("cycle")
    /\ LET sourceId == Head(res.stack)
           called == [res EXCEPT !.stack = Tail(@), !.calls = @ + 1]
       IN  res' = IF sourceId = res.target
                  THEN [called EXCEPT !.out = TRUE, !.stack = << >>]
                  ELSE IF ~MapHas(em, sourceId)
                  THEN [called EXCEPT !.visited = @ \cup {sourceId}]
                  ELSE [called EXCEPT
                           !.visited = @ \cup {sourceId},
                           !.stack = MapGet(em, sourceId).dependencies \o @]
    /\ UNCHANGED << em, sysvars >>

\* One call of hasPath; a call that returns true makes every caller return
\* true, its remaining calls unmade.
StepHasPath ==
    /\ Walking("cycle")
    /\ LET sourceId == Head(res.stack)
           called == [res EXCEPT !.stack = Tail(@), !.calls = @ + 1]
       IN  res' = IF sourceId = res.target
                  THEN [called EXCEPT !.out = TRUE, !.stack = << >>]
                  ELSE IF sourceId \in res.visited THEN called
                  ELSE IF ~MapHas(em, sourceId)
                  THEN [called EXCEPT !.visited = @ \cup {sourceId}]
                  ELSE [called EXCEPT
                           !.visited = @ \cup {sourceId},
                           !.stack = MapGet(em, sourceId).dependencies \o @]
    /\ UNCHANGED << em, sysvars >>

\* getCriticalPath up to its loop over the end nodes: the call for an end
\* node is handed the one visited set, which by then holds the end nodes
\* before it.
StartGetCriticalPath ==
    /\ res = NoResult
    /\ LET endNodes == SelectSeq(MapKeys(em),
                           LAMBDA id : Len(findDependentMilestones(em, id)) = 0)
       IN  res' = [op |-> "walk", kind |-> "criticalPath",
                   stack |-> [k \in 1..Len(endNodes) |->
                                 [id |-> endNodes[k],
                                  visited |-> {endNodes[j] : j \in 1..(k - 1)}]],
                   visited |-> {}, out |-> << >>, calls |-> 0]
    /\ UNCHANGED << em, sysvars >>

\* One call of findLongestPath: every dependency is handed its own copy of
\* the visited set with the milestone added; visited collects the
\* milestones entered.
StepFindLongestPath ==
    /\ Walking("criticalPath")
    /\ LET milestoneId == Head(res.stack).id
           visited == Head(res.stack).visited
           called == [res EXCEPT !.stack = Tail(@), !.calls = @ + 1]
       IN  res' = IF milestoneId \in visited \/ ~MapHas(em, milestoneId)
                  THEN called
                  ELSE LET dependencies == MapGet(em, milestoneId).dependencies
                       IN  [called EXCEPT
                               !.visited = @ \cup {milestoneId},
                               !.stack =
                                   [k \in 1..Len(dependencies) |->
                                       [id |-> dependencies[k],
                                        visited |-> visited \cup {milestoneId}]] \o @]
    /\ UNCHANGED << em, sysvars >>

WalkNext ==
    \/ \E id \in Ids : StartCalculateCascadingUpdates(id)
    \/ StepCascadeUpdate
    \/ \E a \in Ids, b \in Ids : StartWouldCreateCycle(a, b)
    \/ StepHasPath
    \/ StartGetCriticalPath
    \/ StepFindLongestPath

\* A call that can be made is made: the engine runs to the end of the
\* traversal it was asked for.
SpecWalk == EngineInit /\ [][WalkNext]_vars /\ WF_vars(WalkNext)

\* ------------------------------------------------------------------------
\* The FinancialEngine on its own
\* ------------------------------------------------------------------------
FinMaxLen == 2

\* The amounts, risk levels and days the milestones of an array take.
Budgets == {0, 5000, 10000}
Costs == {0, 12000}
FinDays == {0, 5, 10, 60}

FinMilestone(id, budget, actualCost, riskLevel, day) ==
    [Milestone(id, DateOf(day), << >>) EXCEPT
        !.budget = budget, !.actualCost = actualCost, !.riskLevel = riskLevel]

\* A function is handed an array of at most FinMaxLen milestones.
FinanceInit ==
    /\ \E n \in 0..FinMaxLen :
           \E b \in [1..n -> Budgets], a \in [1..n -> Costs],
              r \in [1..n -> RiskLevels], d \in [1..n -> FinDays] :
               em = [i \in 1..n |-> FinMilestone(i, b[i], a[i], r[i], d[i])]
    /\ res = NoResult
    /\ SysInit

FinanceNext ==
    \/ QueryFinancialSummary
    \/ QueryRiskScore
    \/ QueryTimelineCompression

SpecFinance == FinanceInit /\ [][FinanceNext]_vars

\* ------------------------------------------------------------------------
\* The timeline compression functions on their own
\* ------------------------------------------------------------------------
ArrMaxLen == 3

\* The days the milestones of an array are dated: neighbours are 6, 7, 13,
\* 14, 24, 30 and 31 days apart.
CompDays == {0, 7, 14, 20, 44, 75}

\* A function is handed an array of at most ArrMaxLen milestones, in any
\* order of their dates.
CompressionInit ==
    /\ \E n \in 0..ArrMaxLen : \E d \in [1..n -> CompDays] :
           em = [i \in 1..n |-> Milestone(i, DateOf(d[i]), << >>)]
    /\ res = NoResult
    /\ SysInit

QueryCompressionImpact(projectType) ==
    /\ res = NoResult
    /\ res' = [op |-> "compressionImpact", projectType |-> projectType,
               out |-> calculateCompressionImpact(em, projectType)]
    /\ UNCHANGED << em, sysvars >>

CompressionNext ==
    \/ QueryTimelineCompression
    \/ \E projectType \in ProjectTypes : QueryCompressionImpact(projectType)

SpecCompression == CompressionInit /\ [][CompressionNext]_vars

\* ------------------------------------------------------------------------
\* The projected overrun on its own
\* ------------------------------------------------------------------------
\* The budgets and actual costs of the milestones of an array.
OverrunBudgets == {0, 10, 20}
OverrunCosts == {0, 30}

\* The function is handed an array of at most ArrMaxLen milestones of any
\* status.
OverrunInit ==
    /\ \E n \in 0..ArrMaxLen :
           \E b \in [1..n -> OverrunBudgets], a \in [1..n -> OverrunCosts],
              st \in [1..n -> Statuses] :
               em = [i \in 1..n |->
                        [Milestone(i, DateOf(Today), << >>) EXCEPT
                            !.budget = b[i], !.actualCost = a[i], !.status = st[i]]]
    /\ res = NoResult
    /\ SysInit

QueryProjectedOverrun ==
    /\ res = NoResult
    /\ res' = [op |-> "projectedOverrun", out |-> calculateProjectedOverrun(em)]
    /\ UNCHANGED << em, sysvars >>

OverrunNext ==
    \/ QueryProjectedOverrun

SpecOverrun == OverrunInit /\ [][OverrunNext]_vars

\* ------------------------------------------------------------------------
\* Project creation on its own
\* ------------------------------------------------------------------------
MaxReleaseDay == 40

\* The release dates the project form is given, and the ids a project gets.
ReleaseDays == 0..MaxReleaseDay
ProjectIds == {1, 2}

\* generateMilestones and calculateTimelineBounds on its result, as
\* handleCreateProject calls them.
QueryGenerate(projectType, releaseDay, projectId) ==
    /\ res = NoResult
    /\ LET generatedMilestones ==
               generateMilestones(projectType, DateOf(releaseDay), projectId)
       IN  res' = [op |-> "generate", projectType |-> projectType,
                   releaseDate |-> DateOf(releaseDay), projectId |-> projectId,
                   out |-> generatedMilestones,
                   bounds |-> calculateTimelineBounds(generatedMilestones, Today)]
    /\ UNCHANGED << em, sysvars >>

\* calculateTimelineBounds on the milestones of a stored project.
QueryTimelineBounds ==
    /\ res = NoResult
    /\ res' = [op |-> "timelineBounds", out |-> calculateTimelineBounds(em, Today)]
    /\ UNCHANGED << em, sysvars >>

GenerateNext ==
    \/ \E projectType \in ProjectTypes, releaseDay \in ReleaseDays,
          projectId \in ProjectIds :
           QueryGenerate(projectType, releaseDay, projectId)
    \/ QueryTimelineBounds

SpecGenerate == CompressionInit /\ [][GenerateNext]_vars

\* ------------------------------------------------------------------------
\* Globe server
\* ------------------------------------------------------------------------
\* A missing id is 0, a missing title "", a missing date NoDate: the values
\* the guard of handleMilestoneUpdate takes for absent.
NoDate == [k |-> "None", t |-> 0]

\* The server works on sv = [store, toClient]: its Map and what it has sent.
\* excludeConnectionId 0 stands for an omitted argument.
broadcastToTimelineUsers(sv, message, excludeConnectionId) ==
    [sv EXCEPT !.toClient =
        [c \in Clients |->
            IF conn[c] = "timeline" /\ c # excludeConnectionId
            THEN Append(sv.toClient[c], message)
            ELSE sv.toClient[c]]]

broadcastFinancialUpdate(sv) ==
    broadcastToTimelineUsers(sv,
        [type |-> "financial-update",
         financialSummary |-> calculateFinancialSummary(sv.store)], 0)

\* handleMilestoneUpdate that recalculates and broadcasts the summary before
\* it updates the store and broadcasts the milestone.
handleMilestoneUpdate_summaryFirst(sv, connection, milestone) ==
    IF milestone.id = 0 \/ milestone.title = "" \/ milestone.date = NoDate
    THEN sv
    ELSE broadcastToTimelineUsers(
             [broadcastFinancialUpdate(sv) EXCEPT !.store =
                 MapSet(@, [milestone EXCEPT !.date = NewDate(@)])],
             [type |-> "milestone-update", milestone |-> milestone],
             connection)

handleMilestoneUpdate(sv, connection, milestone) ==
    IF milestone.id = 0 \/ milestone.title = "" \/ milestone.date = NoDate
    THEN sv
    ELSE broadcastFinancialUpdate(
             broadcastToTimelineUsers(
                 [sv EXCEPT !.store =
                     MapSet(@, [milestone EXCEPT !.date = NewDate(@)])],
                 [type |-> "milestone-update", milestone |-> milestone],
                 connection))

\* handleMilestoneDelete without the test that the store has the id.
handleMilestoneDelete_unchecked(sv, connection, milestoneId) ==
    broadcastFinancialUpdate(
        broadcastToTimelineUsers(
            [sv EXCEPT !.store = MapDelete(@, milestoneId)],
            [type |-> "milestone-delete", milestoneId |-> milestoneId],
            connection))

handleMilestoneDelete(sv, connection, milestoneId) ==
    IF ~MapHas(sv.store, milestoneId)
    THEN sv
    ELSE broadcastFinancialUpdate(
             broadcastToTimelineUsers(
                 [sv EXCEPT !.store = MapDelete(@, milestoneId)],
                 [type |-> "milestone-delete", milestoneId |-> milestoneId],
                 connection))

onMessage(sv, connection, data) ==
    IF conn[connection] # "timeline" THEN sv
    ELSE IF data.type = "milestone-update"
         THEN handleMilestoneUpdate(sv, connection, data.milestone)
    ELSE IF data.type = "milestone-delete"
         THEN handleMilestoneDelete(sv, connection, data.milestoneId)
    ELSE sv

sendTimelineSync ==
    [type |-> "timeline-sync",
     state |-> [milestones |-> JsonStringifyMap(store),
                financialSummary |-> calculateFinancialSummary(store),
                timelineStart |-> IsoOf(Today),
                timelineEnd |-> IsoOf(Today + YearDays)]]

\* A connection opens.  A timeline user is sent the timeline state; the
\* markers exchanged among legacy globe users are not modelled.
OnConnect(c, kind) ==
    /\ conn[c] = "closed"
    /\ conn' = [conn EXCEPT ![c] = kind]
    /\ toClient' = [toClient EXCEPT ![c] =
                       IF kind = "timeline" THEN Append(@, sendTimelineSync) ELSE @]
    /\ UNCHANGED << store, toServer, milestones, engine, timeline, currentProject,
                    selected, storage, summary, ops, lastDrag, lastEdit, em, res, renderer >>

\* The server handles the oldest message a client has sent.
ServerReceive(c) ==
    /\ toServer[c] # << >>
    /\ LET sv == onMessage([store |-> store, toClient |-> toClient], c, Head(toServer[c]))
       IN  /\ store' = sv.store
           /\ toClient' = sv.toClient
    /\ toServer' = [toServer EXCEPT ![c] = Tail(@)]
    /\ UNCHANGED << conn, milestones, engine, timeline, currentProject, selected,
                    storage, summary, ops, lastDrag, lastEdit, em, res, renderer >>

\* ------------------------------------------------------------------------
\* Timeline client
\* ------------------------------------------------------------------------
RECURSIVE SumLen(_, _)
SumLen(q, S) ==
    IF S = {} THEN 0
    ELSE LET c == CHOOSE x \in S : TRUE
         IN  Len(q[c]) + SumLen(q, S \ {c})

\* The messages under way in either direction.
Pending == SumLen(toServer, Clients) + SumLen(toClient, Clients)

\* A user operation starts while fewer than MaxOps have happened and at
\* most MaxPending messages are under way.
UserMayAct == ops < MaxOps /\ Pending <= MaxPending

\* handleTimelineMessage is memoised with no dependencies, so the
\* saveCurrentState it calls is the one of the first render, whose
\* currentProject is null: it stores nothing.
handleTimelineMessage(c) ==
    /\ toClient[c] # << >>
    /\ LET message == Head(toClient[c])
       IN  IF message.type = "timeline-sync"
           THEN /\ milestones' = [milestones EXCEPT ![c] =
                                     MapFromEntries(message.state.milestones)]
                /\ summary' = [summary EXCEPT ![c] = << message.state.financialSummary >>]
                /\ timeline' = [timeline EXCEPT ![c] =
                                   [start |-> Tenths(NewDate(message.state.timelineStart).t),
                                    end |-> Tenths(NewDate(message.state.timelineEnd).t)]]
                /\ UNCHANGED engine
           ELSE IF message.type = "milestone-update"
           THEN LET updated == MapSet(milestones[c], message.milestone)
                IN  /\ milestones' = [milestones EXCEPT ![c] = updated]
                    /\ engine' = [engine EXCEPT ![c] =
                                     IF @ # << >> THEN << updateMilestones(updated) >> ELSE @]
                    /\ UNCHANGED << summary, timeline >>
           ELSE IF message.type = "milestone-delete"
           THEN LET updated == MapDelete(milestones[c], message.milestoneId)
                IN  /\ milestones' = [milestones EXCEPT ![c] = updated]
                    /\ engine' = [engine EXCEPT ![c] =
                                     IF @ # << >> THEN << updateMilestones(updated) >> ELSE @]
                    /\ UNCHANGED << summary, timeline >>
           ELSE IF message.type = "financial-update"
           THEN /\ summary' = [summary EXCEPT ![c] = << message.financialSummary >>]
                /\ UNCHANGED << milestones, engine, timeline >>
           ELSE UNCHANGED << milestones, engine, timeline, summary >>
    /\ toClient' = [toClient EXCEPT ![c] = Tail(@)]
    /\ UNCHANGED << store, conn, toServer, currentProject, selected, storage,
                    ops, lastDrag, lastEdit, em, res, renderer >>

\* ProjectStorage.saveCurrentProject as saveCurrentState calls it: the
\* project and its milestones go through JSON.stringify.
saveCurrentState(ls, project, milestonesMap, now) ==
    IF project # << >>
    THEN saveCurrentProject(ls,
             [project |-> project[1], milestones |-> JsonArray(milestonesMap)], now)
    ELSE ls

handleCreateProject(c, projectType) ==
    /\ conn[c] = "timeline"
    /\ UserMayAct
    /\ LET project == [id |-> ops + 1, type |-> projectType,
                       releaseDate |-> DateOf(ReleaseDay)]
           generatedMilestones == generateMilestones(project.type, project.releaseDate, project.id)
       IN  /\ engine' = [engine EXCEPT ![c] = << updateMilestones(generatedMilestones) >>]
           /\ currentProject' = [currentProject EXCEPT ![c] = << project >>]
           /\ milestones' = [milestones EXCEPT ![c] = MapFromArray(generatedMilestones)]
           /\ timeline' = [timeline EXCEPT ![c] =
                              calculateTimelineBounds(generatedMilestones, Today)]
           /\ storage' = [storage EXCEPT ![c] =
                             saveCurrentProject(@,
                                 [project |-> project,
                                  milestones |-> JsonArray(generatedMilestones)],
                                 ops + 1)]
           /\ toServer' = [toServer EXCEPT ![c] = Append(@,
                              [type |-> "project-create", project |-> project,
                               milestones |-> JsonArray(generatedMilestones)])]
    /\ ops' = ops + 1
    /\ UNCHANGED << store, conn, toClient, selected, summary, lastDrag, lastEdit, em, res, renderer >>

RECURSIVE applyCascades(_, _)
\* cascades.forEach(update => ...) over the copy of the milestones Map
applyCascades(updatedMilestones, cascades) ==
    IF cascades = << >> THEN updatedMilestones
    ELSE LET update == Head(cascades)
         IN  applyCascades(
                 IF MapHas(updatedMilestones, update.milestoneId)
                 THEN MapSet(updatedMilestones,
                          [MapGet(updatedMilestones, update.milestoneId)
                              EXCEPT !.date = update.newDate])
                 ELSE updatedMilestones,
                 Tail(cascades))

\* What a drag is recorded as: the milestone, the proposed day, how the
\* handler ended and the ids it cascaded to, and the number of the operation.
DragRecord(id, day, outcome, cascaded) ==
    << [id |-> id, day |-> day, outcome |-> outcome, cascaded |-> cascaded,
        op |-> ops + 1] >>

\* What an edit is recorded as: the milestone, the sender, the timeline
\* users connected when it was sent and the number of the operation.
EditRecord(id, c) ==
    << [id |-> id, by |-> c, connected |-> {x \in Clients : conn[x] = "timeline"},
        op |-> ops + 1] >>

\* handleMilestoneDrag that takes the branch without a dependency engine
\* whatever the engine says: the update is sent unchecked.
handleMilestoneDrag_uncheckedSend(c, id, day) ==
    /\ conn[c] = "timeline"
    /\ UserMayAct
    /\ MapHas(milestones[c], id)
    /\ timeline[c].start <= Tenths(day) /\ Tenths(day) <= timeline[c].end
    /\ ops' = ops + 1
    /\ toServer' = [toServer EXCEPT ![c] = Append(@,
                       [type |-> "milestone-update",
                        milestone |-> JsonMilestone(
                            [MapGet(milestones[c], id) EXCEPT !.date = DateOf(day)])])]
    /\ lastDrag' = [lastDrag EXCEPT ![c] = DragRecord(id, day, "unchecked", {})]
    /\ UNCHANGED << store, conn, toClient, milestones, engine, timeline, currentProject,
                    selected, storage, summary, lastEdit, em, res, renderer >>

\* One onMilestoneDrag callback of the renderer built for the current
\* milestones: the milestone under the pointer and the day the pointer's
\* timeline position stands for.
handleMilestoneDrag(c, id, day) ==
    /\ conn[c] = "timeline"
    /\ UserMayAct
    /\ MapHas(milestones[c], id)
    /\ timeline[c].start <= Tenths(day) /\ Tenths(day) <= timeline[c].end
    /\ ops' = ops + 1
    /\ LET milestone == MapGet(milestones[c], id)
           newDate == DateOf(day)
           updatedMilestone == [milestone EXCEPT !.date = newDate]
           send == [toServer EXCEPT ![c] = Append(@,
                       [type |-> "milestone-update",
                        milestone |-> JsonMilestone(updatedMilestone)])]
       IN  IF engine[c] # << >>
           THEN LET validation == validateDependencyConstraints(engine[c][1], id, newDate)
                    cascades == calculateCascadingUpdates(engine[c][1], id, newDate)
                    updatedMilestones ==
                        applyCascades(MapSet(milestones[c], updatedMilestone),
                                      cascades.updates)
                IN  IF ~validation.valid
                    THEN /\ lastDrag' = [lastDrag EXCEPT ![c] =
                                            DragRecord(id, day, "rejected", {})]
                         /\ UNCHANGED << milestones, storage, toServer >>
                    ELSE IF cascades.threw
                    THEN /\ lastDrag' = [lastDrag EXCEPT ![c] =
                                            DragRecord(id, day, "threw", {})]
                         /\ UNCHANGED << milestones, storage, toServer >>
                    ELSE /\ milestones' = [milestones EXCEPT ![c] = updatedMilestones]
                         /\ storage' = [storage EXCEPT ![c] =
                                saveCurrentState(@, currentProject[c], updatedMilestones,
                                                 ops + 1)]
                         /\ toServer' = send
                         /\ lastDrag' = [lastDrag EXCEPT ![c] =
                                DragRecord(id, day, "accepted",
                                    {cascades.updates[i].milestoneId :
                                        i \in 1..Len(cascades.updates)})]
           ELSE /\ toServer' = send
                /\ lastDrag' = [lastDrag EXCEPT ![c] = DragRecord(id, day, "unchecked", {})]
                /\ UNCHANGED << milestones, storage >>
    /\ UNCHANGED << store, conn, toClient, engine, timeline, currentProject,
                    selected, summary, lastEdit, em, res, renderer >>

createNewMilestone(c, day) ==
    /\ conn[c] = "timeline"
    /\ UserMayAct
    /\ timeline[c].start <= Tenths(day) /\ Tenths(day) <= timeline[c].end
    /\ LET newMilestone == Milestone(NewMilestoneId(ops + 1), DateOf(day), << >>)
       IN  /\ toServer' = [toServer EXCEPT ![c] = Append(@,
                              [type |-> "milestone-update",
                               milestone |-> JsonMilestone(newMilestone)])]
           /\ selected' = [selected EXCEPT ![c] = << newMilestone >>]
           /\ lastEdit' = EditRecord(newMilestone.id, c)
    /\ ops' = ops + 1
    /\ UNCHANGED << store, conn, toClient, milestones, engine, timeline,
                    currentProject, storage, summary, lastDrag, em, res, renderer >>

\* A click on a milestone opens it in the editor.  The editor formats the
\* date with toISOString, which a date that arrived as a string does not
\* have; such a milestone cannot be edited and the step is left out.
handleMilestoneClick(c, id) ==
    /\ UserMayAct
    /\ ops' = ops + 1
    /\ MapHas(milestones[c], id)
    /\ MapGet(milestones[c], id).date.k = "Date"
    /\ selected[c] # << MapGet(milestones[c], id) >>
    /\ selected' = [selected EXCEPT ![c] = << MapGet(milestones[c], id) >>]
    /\ UNCHANGED << store, conn, toServer, toClient, milestones, engine, timeline,
                    currentProject, storage, summary, lastDrag, lastEdit, em, res, renderer >>

\* The edits of the editor form taken up here: a new date, or the status
\* set to completed.
Edits ==
    {[field |-> "date", day |-> ReleaseDay - o] : o \in DragOffsets}
    \cup {[field |-> "status", day |-> 0]}

\* Save Changes in the editor: handleSubmit calls onUpdate, then onClose.
updateMilestone(c, edit) ==
    /\ conn[c] = "timeline"
    /\ UserMayAct
    /\ selected[c] # << >>
    /\ LET updatedMilestone ==
               IF edit.field = "date"
               THEN [selected[c][1] EXCEPT !.date = DateOf(edit.day)]
               ELSE [selected[c][1] EXCEPT !.status = "completed"]
       IN  /\ toServer' = [toServer EXCEPT ![c] = Append(@,
                              [type |-> "milestone-update",
                               milestone |-> JsonMilestone(updatedMilestone)])]
           /\ lastEdit' = EditRecord(updatedMilestone.id, c)
    /\ selected' = [selected EXCEPT ![c] = << >>]
    /\ ops' = ops + 1
    /\ UNCHANGED << store, conn, toClient, milestones, engine, timeline,
                    currentProject, storage, summary, lastDrag, em, res, renderer >>

\* Delete in the editor.
deleteMilestone(c) ==
    /\ conn[c] = "timeline"
    /\ UserMayAct
    /\ selected[c] # << >>
    /\ toServer' = [toServer EXCEPT ![c] = Append(@,
                       [type |-> "milestone-delete", milestoneId |-> selected[c][1].id])]
    /\ lastEdit' = EditRecord(selected[c][1].id, c)
    /\ selected' = [selected EXCEPT ![c] = << >>]
    /\ ops' = ops + 1
    /\ UNCHANGED << store, conn, toClient, milestones, engine, timeline,
                    currentProject, storage, summary, lastDrag, em, res, renderer >>

PointerDays == {ReleaseDay - o : o \in DragOffsets}

MilestoneIds(c) == Range(MapKeys(milestones[c]))

Init ==
    /\ SysInit
    /\ em = << >>
    /\ res = NoResult

Next ==
    \/ \E c \in Clients : OnConnect(c, "timeline")
    \/ \E c \in Clients : ServerReceive(c)
    \/ \E c \in Clients : handleTimelineMessage(c)
    \/ \E c \in Clients, projectType \in ProjectTypes : handleCreateProject(c, projectType)
    \/ \E c \in Clients : \E id \in MilestoneIds(c), day \in PointerDays :
           handleMilestoneDrag(c, id, day)
    \/ \E c \in Clients, day \in PointerDays : createNewMilestone(c, day)
    \/ \E c \in Clients : \E id \in MilestoneIds(c) : handleMilestoneClick(c, id)
    \/ \E c \in Clients, edit \in Edits : updateMilestone(c, edit)
    \/ \E c \in Clients : deleteMilestone(c)

Spec == Init /\ [][Next]_vars

\* ------------------------------------------------------------------------
\* The server under arbitrary messages
\* ------------------------------------------------------------------------
\* What a connection may put on the wire: a milestone-update whose id, title
\* or date may be missing and whose dependencies name any id, or a
\* milestone-delete.
WireIds == 1..2

\* Well-formed milestones, milestones with the id, the title or the date
\* missing, and milestones with a negative amount or a value outside an
\* enumeration.
WireMilestones ==
    LET m == Milestone(1, IsoOf(Today), << >>)
    IN  {Milestone(id, IsoOf(Today), deps) :
            id \in WireIds, deps \in {<< >>} \cup {<< j >> : j \in WireIds}}
        \cup {[m EXCEPT !.id = 0], [m EXCEPT !.title = ""], [m EXCEPT !.date = NoDate]}
        \cup {[m EXCEPT !.budget = -1], [m EXCEPT !.actualCost = -1],
              [m EXCEPT !.riskLevel = "extreme"], [m EXCEPT !.status = "unknown"],
              [m EXCEPT !.category = "unknown"]}

WireMessages ==
    {[type |-> "milestone-update", milestone |-> m] : m \in WireMilestones}
    \cup {[type |-> "milestone-delete", milestoneId |-> id] : id \in WireIds}

\* A connection sends a message of its own making.
TransportSend(c, message) ==
    /\ conn[c] # "closed"
    /\ UserMayAct
    /\ ops' = ops + 1
    /\ toServer' = [toServer EXCEPT ![c] = Append(@, message)]
    /\ UNCHANGED << store, conn, toClient, milestones, engine, timeline,
                    currentProject, selected, storage, summary, lastDrag, lastEdit,
                    em, res, renderer >>

ServerNext ==
    \/ \E c \in Clients, kind \in {"timeline", "globe"} : OnConnect(c, kind)
    \/ \E c \in Clients, message \in WireMessages : TransportSend(c, message)
    \/ \E c \in Clients : ServerReceive(c)
    \/ \E c \in Clients : handleTimelineMessage(c)

SpecServer == Init /\ [][ServerNext]_vars

\* ------------------------------------------------------------------------
\* TimelineCylinderRenderer
\* ------------------------------------------------------------------------
\* Canvas coordinates are held in hundredths of the canvas size, so x and y
\* of an event are in 0..100.  A milestone of config.milestones is held by
\* its id, its timelinePosition in hundredths and its radialPosition in
\* hundredths of a full turn, the unit in which canvasX is
\* radialPosition / (2 * PI).
MaxEvents == 4

threshold == 5

CanvasMilestone(id, timelinePosition, radialPosition) ==
    [id |-> id, timelinePosition |-> timelinePosition,
     radialPosition |-> radialPosition]

\* Where the milestones of config.milestones can be, and where the events
\* can happen: on a milestone, a few hundredths beside it, and far from
\* both milestones.
MilestonePositions ==
    { [timelinePosition |-> 50, radialPosition |-> 50],
      [timelinePosition |-> 20, radialPosition |-> 10] }

CanvasPoints ==
    { [x |-> 50, y |-> 50], [x |-> 52, y |-> 53], [x |-> 90, y |-> 10] }

\* The first milestone of config.milestones nearer than threshold, or null.
\* distance < threshold is compared on the squares.
findMilestoneAt(configMilestones, x, y) ==
    LET near == {i \in 1..Len(configMilestones) :
                    LET canvasY == 100 - configMilestones[i].timelinePosition
                        canvasX == configMilestones[i].radialPosition
                    IN  (x - canvasX) * (x - canvasX) + (y - canvasY) * (y - canvasY)
                            < threshold * threshold}
    IN  IF near = {} THEN << >> ELSE << configMilestones[SetMin(near)] >>

\* An event a listener has handled: its type, whether findMilestoneAt found
\* a milestone at it, and the callbacks of config the listener invoked.
HandledEvent(type, onMilestone, called) ==
    [type |-> type, onMilestone |-> onMilestone, called |-> called]

\* Both callbacks are configured, as the client configures them.
RendererInit ==
    /\ \E n \in 0..2 : \E at \in [1..n -> MilestonePositions] :
           em = [i \in 1..n |->
                    CanvasMilestone(i, at[i].timelinePosition, at[i].radialPosition)]
    /\ res = NoResult
    /\ SysInit

handleMouseDown(p) ==
    /\ Len(renderer.events) < MaxEvents
    /\ LET milestone == findMilestoneAt(em, p.x, p.y)
           handled == HandledEvent("mousedown", milestone # << >>, {})
       IN  renderer' =
               IF milestone # << >>
               THEN [renderer EXCEPT !.isDragging = TRUE,
                                     !.selectedMilestone = milestone,
                                     !.events = Append(@, handled)]
               ELSE [renderer EXCEPT !.events = Append(@, handled)]
    /\ UNCHANGED nonrenderer

handleMouseMove(p) ==
    /\ Len(renderer.events) < MaxEvents
    /\ LET called == IF renderer.isDragging /\ renderer.selectedMilestone # << >>
                     THEN {"onMilestoneDrag"} ELSE {}
           handled == HandledEvent("mousemove",
                                   findMilestoneAt(em, p.x, p.y) # << >>, called)
       IN  renderer' = [renderer EXCEPT !.mousePosition = p,
                                        !.events = Append(@, handled)]
    /\ UNCHANGED nonrenderer

handleMouseUp ==
    /\ Len(renderer.events) < MaxEvents
    /\ renderer' = [renderer EXCEPT !.isDragging = FALSE,
                                    !.selectedMilestone = << >>,
                                    !.events = Append(@,
                                        HandledEvent("mouseup", FALSE, {}))]
    /\ UNCHANGED nonrenderer

handleClick(p) ==
    /\ Len(renderer.events) < MaxEvents
    /\ LET milestone == findMilestoneAt(em, p.x, p.y)
           called == IF ~renderer.isDragging /\ milestone # << >>
                     THEN {"onMilestoneClick"} ELSE {}
       IN  renderer' = [renderer EXCEPT !.events = Append(@,
                           HandledEvent("click", milestone # << >>, called))]
    /\ UNCHANGED nonrenderer

RendererNext ==
    \/ \E p \in CanvasPoints : handleMouseDown(p)
    \/ \E p \in CanvasPoints : handleMouseMove(p)
    \/ handleMouseUp
    \/ \E p \in CanvasPoints : handleClick(p)

SpecRenderer == RendererInit /\ [][RendererNext]_vars

\* ------------------------------------------------------------------------
\* ProjectStorage on its own
\* ------------------------------------------------------------------------
\* One browser calls saveCurrentProject and deleteProject.  ops is the
\* millisecond its clock shows: a call happens in the millisecond of the
\* call before it or in the next one, up to MaxTime.
MaxTime == 1

Browser == 1

StorageProjectIds == {1, RecentProjects, RecentProjects + 1}

StoredProjectOf(id) ==
    [project |-> [id |-> id, type |-> "single", releaseDate |-> DateOf(ReleaseDay)],
     milestones |-> << >>]

\* localStorage after saveCurrentProject of the projects 1..n, one after
\* the other, all within the millisecond now, for n up to RecentProjects:
\* every call pushes its summary, the sort leaves entries of one updatedAt
\* in their order, and nothing is sliced away.
SavedInTurn(n, now) ==
    IF n = 0 THEN EmptyStorage
    ELSE [current |-> << StoredProjectOf(n) >>,
          projects |-> [i \in 1..n |-> [id |-> i, updatedAt |-> now]]]

StorageInit ==
    /\ InitExceptStorage
    /\ \E n \in {0, RecentProjects - 1, RecentProjects} :
           storage = [c \in Clients |->
                         IF c = Browser THEN SavedInTurn(n, 0) ELSE EmptyStorage]
    /\ em = << >>
    /\ res = NoResult

CallSaveCurrentProject(id, now) ==
    /\ now \in {ops, ops + 1}
    /\ now <= MaxTime
    /\ storage' = [storage EXCEPT ![Browser] =
                      saveCurrentProject(@, StoredProjectOf(id), now)]
    /\ ops' = now
    /\ res' = [op |-> "saveCurrentProject", id |-> id]
    /\ UNCHANGED << store, conn, toServer, toClient, milestones, engine, timeline,
                    currentProject, selected, summary, lastDrag, lastEdit, em,
                    renderer >>

CallDeleteProject(projectId) ==
    /\ storage' = [storage EXCEPT ![Browser] = deleteProject(@, projectId)]
    /\ res' = [op |-> "deleteProject", id |-> projectId]
    /\ UNCHANGED << store, conn, toServer, toClient, milestones, engine, timeline,
                    currentProject, selected, summary, ops, lastDrag, lastEdit, em,
                    renderer >>

StorageNext ==
    \/ \E id \in StorageProjectIds : \E now \in 0..MaxTime :
           CallSaveCurrentProject(id, now)
    \/ \E projectId \in StorageProjectIds : CallDeleteProject(projectId)

SpecStorage == StorageInit /\ [][StorageNext]_vars

\* ------------------------------------------------------------------------
\* Graph notions the properties are stated in
\* ------------------------------------------------------------------------
Present(ms) == Range(MapKeys(ms))
DepsOf(ms, id) == Range(MapGet(ms, id).dependencies)

RECURSIVE GrowDependents(_, _, _)
GrowDependents(ms, id, S) ==
    LET S1 == {x \in Present(ms) : DepsOf(ms, x) \cap (S \cup {id}) # {}}
    IN  IF S1 = S THEN S ELSE GrowDependents(ms, id, S1)

\* The milestones reachable from id by repeatedly taking "has X in its
\* dependencies".
DependentClosure(ms, id) == GrowDependents(ms, id, {})

RECURSIVE GrowReach(_, _)
GrowReach(ms, S) ==
    LET S1 == S \cup UNION {DepsOf(ms, x) : x \in S \cap Present(ms)}
    IN  IF S1 = S THEN S ELSE GrowReach(ms, S1)

\* The ids reachable from b along dependencies edges, b included.
ReachSet(ms, b) == GrowReach(ms, {b})

Acyclic(ms) ==
    \A x \in Present(ms) : \A y \in DepsOf(ms, x) : x \notin ReachSet(ms, y)

\* The milestone set after "a depends on b" is added.
AddEdge(ms, a, b) ==
    MapSet(ms, [MapGet(ms, a) EXCEPT !.dependencies = Append(@, b)])

RECURSIVE ChainLen(_, _)
\* The number of milestones on the longest dependency chain ending at id,
\* on an acyclic graph.
ChainLen(ms, id) ==
    1 + SetMax({0} \cup {ChainLen(ms, d) : d \in DepsOf(ms, id) \cap Present(ms)})

NoDuplicates(s) == \A i, j \in 1..Len(s) : s[i] = s[j] => i = j

\* ------------------------------------------------------------------------
\* Properties of the DependencyEngine queries
\* ------------------------------------------------------------------------
\* C4: for an id in the engine, calculateCascadingUpdates returns exactly one
\* update for each milestone of the transitive dependent closure of the id,
\* none for any other milestone, and each update's newDate is that
\* milestone's date plus (newDate - date of the id).
C4_CascadeShiftsClosure ==
    (res.op = "cascade" /\ MapHas(em, res.id)) =>
        LET ups == res.out.updates
            delta == res.newDate.t - MapGet(em, res.id).date.t
        IN  /\ ~res.out.threw
            /\ NoDuplicates([i \in 1..Len(ups) |-> ups[i].milestoneId])
            /\ {ups[i].milestoneId : i \in 1..Len(ups)} = DependentClosure(em, res.id)
            /\ \A i \in 1..Len(ups) :
                   ups[i].newDate = DateOf(MapGet(em, ups[i].milestoneId).date.t + delta)

\* A cascade by a non-zero delta that reached a dependent of a dependent.
C4_Witness ==
    /\ res.op = "cascade"
    /\ MapHas(em, res.id)
    /\ res.newDate.t # MapGet(em, res.id).date.t
    /\ \E i \in 1..Len(res.out.updates) :
           /\ res.out.updates[i].milestoneId # res.id
           /\ res.id \notin DepsOf(em, res.out.updates[i].milestoneId)

\* C5: for an id in the engine, validateDependencyConstraints is invalid
\* exactly when the proposed date is earlier than the date of a dependency of
\* the id or later than the date of a milestone depending on the id; a date
\* equal to a neighbour's date is accepted.
C5_ValidateIffOrderBroken ==
    (res.op = "validate" /\ MapHas(em, res.id)) =>
        (res.out.valid = FALSE) <=>
            \/ \E d \in DepsOf(em, res.id) \cap Present(em) :
                   res.newDate.t < MapGet(em, d).date.t
            \/ \E x \in Present(em) :
                   /\ res.id \in DepsOf(em, x)
                   /\ res.newDate.t > MapGet(em, x).date.t

\* A proposed date equal to the date of a dependency and of a dependent was
\* accepted.
C5_Witness ==
    /\ res.op = "validate"
    /\ MapHas(em, res.id)
    /\ res.out.valid
    /\ \E d \in (DepsOf(em, res.id) \cap Present(em)) \ {res.id} :
           MapGet(em, d).date = res.newDate
    /\ \E x \in Present(em) \ {res.id} :
           res.id \in DepsOf(em, x) /\ MapGet(em, x).date = res.newDate

\* C6: wouldCreateCycle(a, b) is true exactly when a is reachable from b
\* along dependencies edges (a = b included); on an acyclic graph, adding
\* "a depends on b" keeps the graph acyclic when it returned false and
\* closes a cycle when it returned true.
C6_CycleIffReachable ==
    (res.op = "cycle") =>
        /\ res.out = (res.fromId \in ReachSet(em, res.toId))
        /\ (Acyclic(em) /\ MapHas(em, res.fromId)) =>
               (Acyclic(AddEdge(em, res.fromId, res.toId)) <=> ~res.out)

\* On an acyclic graph a cycle was predicted for two different milestones
\* joined by a path of more than one edge.
C6_Witness ==
    /\ res.op = "cycle"
    /\ Acyclic(em)
    /\ res.out
    /\ res.fromId # res.toId
    /\ MapHas(em, res.toId)
    /\ res.fromId \notin DepsOf(em, res.toId)
    /\ MapHas(em, res.fromId)

IsChainABC(ms) ==
    /\ Len(ms) = 3
    /\ MapGet(ms, 1).dependencies = << >>
    /\ MapGet(ms, 2).dependencies = << 1 >>
    /\ MapGet(ms, 3).dependencies = << 2 >>

\* C7: on an acyclic dependency graph getCriticalPath returns milestones of
\* the engine, earliest first, each a direct dependency of the next, and no
\* dependency chain has more milestones than the returned sequence; for the
\* chain A <- B <- C it returns [A, B, C].
C7_CriticalPathIsLongestChain ==
    (res.op = "criticalPath" /\ Acyclic(em)) =>
        LET p == res.out
        IN  /\ \A i \in 1..Len(p) : MapHas(em, p[i])
            /\ \A i \in 1..(Len(p) - 1) : p[i] \in DepsOf(em, p[i + 1])
            /\ \A x \in Present(em) : ChainLen(em, x) <= Len(p)
            /\ IsChainABC(em) => p = << 1, 2, 3 >>

\* The critical path of the chain A <- B <- C was computed.
C7_Witness ==
    /\ res.op = "criticalPath"
    /\ IsChainABC(em)
    /\ res.out = << 1, 2, 3 >>

\* ------------------------------------------------------------------------
\* Properties of the client and the server
\* ------------------------------------------------------------------------
\* Every dependency that is in the set is dated no later than its dependent.
DateOrdered(ms) ==
    \A x \in Present(ms) : \A d \in DepsOf(ms, x) \cap Present(ms) :
        MapGet(ms, d).date.t <= MapGet(ms, x).date.t

\* The step is a call of handleMilestoneDrag by client c.
DragStep(c) == lastDrag'[c] # lastDrag[c]

\* C1: a drag that handleMilestoneDrag accepts, made on a milestone set in
\* which every dependency is dated no later than its dependent and with the
\* engine's snapshot equal to that set, leaves a set in which every
\* dependency is still dated no later than its dependent.
C1_AcceptedDragKeepsDateOrder ==
    [][\A c \in Clients :
          (/\ DragStep(c)
           /\ lastDrag'[c][1].outcome = "accepted"
           /\ engine[c] = << milestones[c] >>
           /\ DateOrdered(milestones[c]))
          => DateOrdered(milestones'[c])]_vars

\* C2: the dependency edges of the milestones in the server's store never
\* hold a cycle or a self-dependency.
C2_StoreIsAcyclic == Acyclic(store)

\* C3: every id in the dependencies of a milestone in the server's store is
\* the id of a milestone in the store.
C3_StoreHasNoDanglingDependency ==
    \A x \in Present(store) : DepsOf(store, x) \subseteq Present(store)

\* The two milestones are the same but for the form of the date (a Date or
\* its ISO string).
SameMilestone(a, b) ==
    [a EXCEPT !.date = DateOf(a.date.t)] = [b EXCEPT !.date = DateOf(b.date.t)]

\* C8: once a client's drag has been accepted, the server has handled all
\* that was sent and nothing else has happened since, the store holds the
\* dragged milestone and every milestone of its cascade with the date they
\* have in the dragging client's map.
C8_StoreHoldsCascadedDates ==
    \A c \in Clients :
        (/\ lastDrag[c] # << >>
         /\ lastDrag[c][1].outcome = "accepted"
         /\ lastDrag[c][1].op = ops
         /\ Pending = 0)
        => \A id \in {lastDrag[c][1].id} \cup lastDrag[c][1].cascaded :
               /\ MapHas(store, id)
               /\ MapHas(milestones[c], id)
               /\ MapGet(store, id).date.t = MapGet(milestones[c], id).date.t

\* C9: whenever handleMilestoneDrag validates a drag and computes its
\* cascade, the engine's snapshot equals the client's milestone map.
C9_EngineSnapshotIsCurrent ==
    [][\A c \in Clients :
          (DragStep(c) /\ engine[c] # << >>) => engine[c] = << milestones[c] >>]_vars

\* The client's map and the store agree on the milestone: in both with the
\* same fields, or in neither.
AgreeOn(c, id) ==
    /\ MapHas(milestones[c], id) <=> MapHas(store, id)
    /\ MapHas(store, id) => SameMilestone(MapGet(milestones[c], id), MapGet(store, id))

\* C10: once the latest milestone-update or milestone-delete of a client has
\* been handled by the server, every message has been delivered and nothing
\* else has happened since, every timeline client that was connected when
\* it was sent, the sender included, agrees with the store on the milestone.
C10_ClientsAgreeWithStore ==
    (lastEdit # << >> /\ lastEdit[1].op = ops /\ Pending = 0)
    => \A c \in lastEdit[1].connected : AgreeOn(c, lastEdit[1].id)

\* C11: when validateDependencyConstraints finds a drag invalid,
\* handleMilestoneDrag leaves the client's milestone map and its storage as
\* they were and sends nothing to the server.
C11_RejectedDragChangesNothing ==
    [][\A c \in Clients :
          (/\ DragStep(c)
           /\ engine[c] # << >>
           /\ ~validateDependencyConstraints(engine[c][1], lastDrag'[c][1].id,
                                             DateOf(lastDrag'[c][1].day)).valid)
          => /\ milestones'[c] = milestones[c]
             /\ storage'[c] = storage[c]
             /\ toServer'[c] = toServer[c]]_vars

\* A drag of a milestone of the client's project has just been rejected.
C11_Witness ==
    \E c \in Clients :
        /\ lastDrag[c] # << >>
        /\ lastDrag[c][1].outcome = "rejected"
        /\ lastDrag[c][1].op = ops
        /\ engine[c] # << >>
        /\ MapHas(engine[c][1], lastDrag[c][1].id)
        /\ MapHas(milestones[c], lastDrag[c][1].id)
        /\ storage[c].current # << >>

\* C12: for an id in the engine, validateDependencyConstraints returns one
\* violation for each dependency dated after the proposed date and one for
\* each dependent dated before it, not only the first.
C12_EveryViolationReported ==
    (res.op = "validate" /\ MapHas(em, res.id)) =>
        Len(res.out.violations) =
            Cardinality({d \in DepsOf(em, res.id) \cap Present(em) :
                            res.newDate.t < MapGet(em, d).date.t})
            + Cardinality({x \in Present(em) :
                            /\ res.id \in DepsOf(em, x)
                            /\ res.newDate.t > MapGet(em, x).date.t})

\* A proposed date broke two edges and two violations were returned.
C12_Witness ==
    /\ res.op = "validate"
    /\ MapHas(em, res.id)
    /\ Len(res.out.violations) = 2
    /\ res.out.violations[1].other # res.out.violations[2].other

\* The step is the server handling the oldest message of client c.
ReceiveStep(c) == toServer[c] # << >> /\ toServer'[c] = Tail(toServer[c])

\* C13: when the server handles a client's project-create, its store
\* afterwards holds exactly the initial milestones the message carries.
C13_ProjectCreateIsStored ==
    [][\A c \in Clients :
          (ReceiveStep(c) /\ Head(toServer[c]).type = "project-create")
          => LET sent == Head(toServer[c]).milestones
             IN  /\ Present(store') = {sent[i].id : i \in 1..Len(sent)}
                 /\ \A i \in 1..Len(sent) :
                        SameMilestone(MapGet(store', sent[i].id), sent[i])]_vars

\* The milestone has a negative amount or a value outside an enumeration.
OutOfDomain(m) ==
    \/ m.budget < 0
    \/ m.actualCost < 0
    \/ m.riskLevel \notin RiskLevels
    \/ m.status \notin Statuses
    \/ m.category \notin Categories

\* C14: when the server handles a milestone-update whose milestone has a
\* negative budget or actualCost, or a riskLevel, status or category outside
\* its enumeration, the store is left as it was and nothing is sent to any
\* client.
C14_OutOfDomainUpdateRejected ==
    [][\A c \in Clients :
          (/\ ReceiveStep(c)
           /\ Head(toServer[c]).type = "milestone-update"
           /\ OutOfDomain(Head(toServer[c]).milestone))
          => store' = store /\ toClient' = toClient]_vars

\* The server accepts the message from connection c: a milestone-update
\* with id, title and date, or a milestone-delete of a stored id, from a
\* timeline user.
Accepts(c, data) ==
    /\ conn[c] = "timeline"
    /\ \/ /\ data.type = "milestone-update"
          /\ data.milestone.id # 0
          /\ data.milestone.title # ""
          /\ data.milestone.date # NoDate
       \/ /\ data.type = "milestone-delete"
          /\ MapHas(store, data.milestoneId)

C16_SyncCarriesStore ==
    [][\A c \in Clients :
          (conn[c] = "closed" /\ conn'[c] = "timeline")
          => LET message == toClient'[c][Len(toClient'[c])]
                 entries == message.state.milestones
             IN  /\ message.type = "timeline-sync"
                 /\ Len(entries) = Len(store)
                 /\ {entries[i].id : i \in 1..Len(entries)} = Present(store)
                 /\ Present(MapFromEntries(entries)) = Present(store)]_vars

\* The milestone set with every dependency id that is not in the set taken
\* out of the dependencies.
WithoutDangling(ms) ==
    [i \in 1..Len(ms) |->
        [ms[i] EXCEPT !.dependencies = SelectSeq(@, LAMBDA d : MapHas(ms, d))]]

HasDangling(ms) == \E x \in Present(ms) : ~(DepsOf(ms, x) \subseteq Present(ms))

\* C17: on an engine in which some dependencies name an id that is not in
\* the engine, each query completes and returns what it returns on the
\* same milestones with the unknown ids removed from the dependencies.
C17_DanglingIdsIgnored ==
    HasDangling(em) =>
        LET clean == WithoutDangling(em)
        IN  /\ res.op = "validate" =>
                   res.out = validateDependencyConstraints(clean, res.id, res.newDate)
            /\ res.op = "cascade" =>
                   /\ ~res.out.threw
                   /\ res.out.updates =
                          calculateCascadingUpdates(clean, res.id, res.newDate).updates
            /\ res.op = "cycle" =>
                   res.out = wouldCreateCycle(clean, res.fromId, res.toId)
            /\ res.op = "criticalPath" => res.out = getCriticalPath(clean)

\* C18: no query of the DependencyEngine changes the engine's Map or a
\* milestone record in it, and no FinancialEngine function changes the
\* array it is handed, in contents or order.
C18_QueriesChangeNoMilestone ==
    [][res' # res => em' = em]_vars

\* A cascade has proposed a date other than the one the engine still holds
\* for the milestone.
C18_Witness ==
    /\ res.op = "cascade"
    /\ \E i \in 1..Len(res.out.updates) :
           res.out.updates[i].newDate #
               MapGet(em, res.out.updates[i].milestoneId).date

\* ------------------------------------------------------------------------
\* Properties of the FinancialEngine
\* ------------------------------------------------------------------------
NonNegativeAmounts(arr) ==
    \A i \in 1..Len(arr) : arr[i].budget >= 0 /\ arr[i].actualCost >= 0

\* C19: for every milestone array whose budgets and actual costs are all
\* non-negative, calculateRiskScore returns an integer from 0 to 100, and 0
\* for the empty array.
C19_RiskScoreInRange ==
    (res.op = "riskScore" /\ NonNegativeAmounts(em)) =>
        /\ res.out \in 0..100
        /\ em = << >> => res.out = 0

\* Two high-risk milestones less than a week apart, spent more than half
\* over a positive budget: every factor is at its largest.
C19_Witness ==
    /\ res.op = "riskScore"
    /\ Len(em) = 2
    /\ NonNegativeAmounts(em)
    /\ \A i \in 1..2 : em[i].riskLevel = "high"
    /\ calculateTimelineCompression(em) = 90
    /\ SumOver(em, "budget") > 0
    /\ 2 * SumOver(em, "actualCost") > 3 * SumOver(em, "budget")
    /\ res.out = 97

\* C20: the overrun sub-score is min(100, 200 * max(0, A - B) / B) for total
\* actual cost A and total budget B, and 0 when B is 0; the score is the
\* rounding of 0.4 * the mean risk-level score (high 100, medium 50, low 10)
\* + 0.3 * the compression score + 0.3 * the overrun sub-score.  With
\* B = 10000 and A = 12000 the sub-score is 40 and it adds 12 points.
\* Everything is multiplied by 10 * n * B to stay in the integers.
C20_RiskScoreWeights ==
    (res.op = "riskScore" /\ Len(em) > 0 /\ NonNegativeAmounts(em)) =>
        LET n == Len(em)
            B == SumOver(em, "budget")
            A == SumOver(em, "actualCost")
            den == IF B > 0 THEN B ELSE 1
            over == IF A > B THEN A - B ELSE 0
            overrunTimesDen == IF B = 0 THEN 0
                               ELSE IF 200 * over > 100 * B THEN 100 * B
                               ELSE 200 * over
            meanTimesN == Cardinality({i \in 1..n : em[i].riskLevel = "high"}) * 100
                          + Cardinality({i \in 1..n : em[i].riskLevel = "medium"}) * 50
                          + Cardinality({i \in 1..n : em[i].riskLevel = "low"}) * 10
            others == 4 * meanTimesN * den
                      + 3 * calculateTimelineCompression(em) * n * den
            scaled == others + 3 * overrunTimesDen * n
            unit == 10 * n * den
        IN  /\ 2 * unit * res.out <= 2 * scaled + unit
            /\ 2 * scaled + unit < 2 * unit * (res.out + 1)
            /\ (B = 10000 /\ A = 12000) =>
                   /\ 2 * unit * res.out <= 2 * (others + 12 * unit) + unit
                   /\ 2 * (others + 12 * unit) + unit < 2 * unit * (res.out + 1)

\* One medium-risk milestone with budget 10000 and actual cost 12000:
\* 50 * 0.4 + 0 * 0.3 + 40 * 0.3 = 32.
C20_Witness ==
    /\ res.op = "riskScore"
    /\ Len(em) = 1
    /\ em[1].riskLevel = "medium"
    /\ em[1].budget = 10000
    /\ em[1].actualCost = 12000
    /\ res.out = 32

\* ------------------------------------------------------------------------
\* Properties of the timeline compression functions
\* ------------------------------------------------------------------------
\* C21: calculateTimelineCompression returns 0 for fewer than 2 milestones;
\* otherwise, with the mean gap between date-consecutive milestones being
\* (latest date - earliest date) / (n - 1), it returns 10 when the gap is
\* within 14..30, 50 when within 7..<14, 90 when below 7 and 30 when above
\* 30; every reordering of the array gives the same result.
C21_CompressionBands ==
    res.op = "timelineCompression" =>
        LET n == Len(em)
            days == {em[i].date.t : i \in 1..n}
            span == SetMax(days) - SetMin(days)
            gaps == n - 1
        IN  /\ n < 2 => res.out = 0
            /\ n >= 2 =>
                   /\ res.out \in {10, 50, 90, 30}
                   /\ res.out = 10 <=> (14 * gaps <= span /\ span <= 30 * gaps)
                   /\ res.out = 50 <=> (7 * gaps <= span /\ span < 14 * gaps)
                   /\ res.out = 90 <=> span < 7 * gaps
                   /\ res.out = 30 <=> span > 30 * gaps
            /\ \A p \in Permutations(1..n) :
                   calculateTimelineCompression([i \in 1..n |-> em[p[i]]]) = res.out

\* Three milestones handed in out of date order, a fortnight apart in the
\* mean.
C21_Witness ==
    /\ res.op = "timelineCompression"
    /\ Len(em) = 3
    /\ em[1].date.t > em[3].date.t
    /\ em[3].date.t > em[2].date.t
    /\ res.out = 10

C30_OverdueAddsNothing ==
    res.op = "projectedOverrun" =>
        /\ \A i \in 1..Len(em) :
               em[i].status = "overdue" =>
                   \A b \in OverrunBudgets, a \in OverrunCosts :
                       calculateProjectedOverrun(
                           [em EXCEPT ![i].budget = b, ![i].actualCost = a]) = res.out
        /\ (\A i \in 1..Len(em) : em[i].budget > 0) =>
               /\ res.out.kind = "finite"
               /\ res.out.den > 0
               /\ res.out.num >= 0

\* A completed milestone over its budget, a planned one and an overdue one
\* that has spent more than its budget, all budgets positive: the
\* projection is above 0.
C30_Witness ==
    /\ res.op = "projectedOverrun"
    /\ Len(em) = 3
    /\ \A i \in 1..3 : em[i].budget > 0
    /\ \E i \in 1..3 : em[i].status = "completed" /\ em[i].actualCost > em[i].budget
    /\ \E i \in 1..3 : em[i].status = "planned"
    /\ \E i \in 1..3 : em[i].status = "overdue" /\ em[i].actualCost > em[i].budget
    /\ res.out.kind = "finite"
    /\ res.out.num > 0

\* ------------------------------------------------------------------------
\* Properties of project creation
\* ------------------------------------------------------------------------
\* C22: for each project type, every dependency name a template declares is
\* resolved to the id of a milestone generated earlier in the list: a
\* generated milestone has as many dependency ids as its template has
\* names, and its k-th dependency id is the id of an earlier milestone that
\* carries the k-th name.
C22_EveryDeclaredDependencyResolved ==
    res.op = "generate" =>
        LET templates == MILESTONE_TEMPLATES[res.projectType]
        IN  /\ Len(res.out) = Len(templates)
            /\ \A i \in 1..Len(res.out) :
                   /\ Len(res.out[i].dependencies) = Len(templates[i].dependencies)
                   /\ \A k \in 1..Len(res.out[i].dependencies) :
                          \E j \in 1..(i - 1) :
                              /\ res.out[j].id = res.out[i].dependencies[k]
                              /\ k <= Len(templates[i].dependencies)
                              /\ res.out[j].title = templates[i].dependencies[k]

\* An album has been generated: its PR Campaign depends on Artwork and
\* Video, its Release on Distribution and PR Campaign.
C22_Witness ==
    /\ res.op = "generate"
    /\ res.projectType = "album"
    /\ Len(res.out) = 9
    /\ res.out[7].dependencies = << res.out[5].id, res.out[6].id >>
    /\ res.out[9].dependencies = << res.out[8].id, res.out[7].id >>

\* C23: the bounds of a generated album end on or after the release date
\* and start on or before the release date minus 180 days; the bounds of
\* any milestones are their earliest and latest date, each moved outward
\* by a tenth of the span between the two.
C23_BoundsCoverGeneratedAlbum ==
    /\ (res.op = "generate" /\ res.projectType = "album") =>
           /\ res.bounds.end >= Tenths(res.releaseDate.t)
           /\ res.bounds.start <= Tenths(res.releaseDate.t - 180)
    /\ (res.op = "generate" \/ (res.op = "timelineBounds" /\ em # << >>)) =>
           LET arr == IF res.op = "generate" THEN res.out ELSE em
               bounds == IF res.op = "generate" THEN res.bounds ELSE res.out
               earliest == CHOOSE i \in 1..Len(arr) :
                               \A j \in 1..Len(arr) : arr[i].date.t <= arr[j].date.t
               latest == CHOOSE i \in 1..Len(arr) :
                             \A j \in 1..Len(arr) : arr[j].date.t <= arr[i].date.t
               span == arr[latest].date.t - arr[earliest].date.t
           IN  /\ 10 * (Tenths(arr[earliest].date.t) - bounds.start) = Tenths(span)
               /\ 10 * (bounds.end - Tenths(arr[latest].date.t)) = Tenths(span)

\* An album released on the last release day: its window runs from 198
\* days before the release to 18 days after it.
C23_Witness ==
    /\ res.op = "generate"
    /\ res.projectType = "album"
    /\ res.releaseDate.t = MaxReleaseDay
    /\ res.bounds.start = Tenths(MaxReleaseDay - 198)
    /\ res.bounds.end = Tenths(MaxReleaseDay + 18)

\* C24: for each project type and release date, the generated milestones
\* have an acyclic dependency graph, every dependency id is the id of a
\* generated milestone, and no dependency is dated after its dependent.
C24_GeneratedSetIsWellFormed ==
    res.op = "generate" =>
        LET ms == MapFromArray(res.out)
        IN  /\ Acyclic(ms)
            /\ \A i \in 1..Len(ms) : \A k \in 1..Len(ms[i].dependencies) :
                   MapHas(ms, ms[i].dependencies[k])
            /\ \A i \in 1..Len(ms) : \A k \in 1..Len(ms[i].dependencies) :
                   \A j \in 1..Len(ms) :
                       ms[j].id = ms[i].dependencies[k] =>
                           ms[j].date.t <= ms[i].date.t

\* An EP has been generated whose Release, on the release date, depends on
\* the Distribution dated a fortnight before it.
C24_Witness ==
    /\ res.op = "generate"
    /\ res.projectType = "ep"
    /\ res.out[6].date.t = res.releaseDate.t
    /\ res.out[6].dependencies[1] = res.out[5].id
    /\ res.out[5].date.t = res.releaseDate.t - 14

\* ------------------------------------------------------------------------
\* Properties of the server's message handling
\* ------------------------------------------------------------------------
\* The message from connection c is one the server turns down: it comes
\* from a connection that is not a timeline user, or it is a
\* milestone-update without id, title or date, or a milestone-delete of an
\* id the store does not hold.
TurnedDown(c, data) ==
    \/ conn[c] # "timeline"
    \/ /\ data.type = "milestone-update"
       /\ \/ data.milestone.id = 0
          \/ data.milestone.title = ""
          \/ data.milestone.date = NoDate
    \/ /\ data.type = "milestone-delete"
       /\ ~MapHas(store, data.milestoneId)

\* C25: when the server handles a milestone-update that lacks an id, a
\* title or a date, a milestone-delete of an id that is not in the store, or
\* any message from a connection that is not a timeline user, the store
\* stays as it was and no client is sent anything.
C25_TurnedDownMessageChangesNothing ==
    [][\A c \in Clients :
          (ReceiveStep(c) /\ TurnedDown(c, Head(toServer[c])))
          => store' = store /\ toClient' = toClient]_vars

\* The one message sent so far has been handled, a timeline user is
\* connected with nothing on its way to it, and the store holds nothing:
\* the message was turned down.
C25_Witness ==
    /\ ops = 1
    /\ \A c \in Clients : toServer[c] = << >>
    /\ store = << >>
    /\ \E u \in Clients : conn[u] = "timeline"
    /\ \A u \in Clients : toClient[u] = << >>

\* ------------------------------------------------------------------------
\* Termination of the traversals
\* ------------------------------------------------------------------------
\* C26: calculateCascadingUpdates, wouldCreateCycle and getCriticalPath
\* return on every milestone set, sets with dependency cycles and
\* self-dependencies included: the traversal asked for reaches the point
\* where no call is left to make.
C26_TraversalsTerminate ==
    <>(res.op = "walk" /\ res.stack = << >>)

\* A cascade has returned on a set with a dependency cycle, after a call
\* that found its milestone visited already.
C26_Witness ==
    /\ res.op = "walk"
    /\ res.kind = "cascade"
    /\ res.stack = << >>
    /\ ~Acyclic(em)
    /\ Cardinality(res.visited) >= 2
    /\ res.calls > Cardinality(res.visited)

\* ------------------------------------------------------------------------
\* Properties of the TimelineCylinderRenderer
\* ------------------------------------------------------------------------
\* C27: whenever the listeners have handled, one after the other, a
\* mousedown on a milestone, a mousemove that invoked onMilestoneDrag, a
\* mouseup and a click, that click has not invoked onMilestoneClick; and
\* isDragging is true only while a selectedMilestone is held, that is
\* after a mousedown on a milestone that no mouseup has followed.
C27_ClickEndingADragIsIgnored ==
    LET events == renderer.events
    IN  /\ \A i \in 1..(Len(events) - 3) :
               (/\ events[i].type = "mousedown"
                /\ events[i].onMilestone
                /\ events[i + 1].type = "mousemove"
                /\ "onMilestoneDrag" \in events[i + 1].called
                /\ events[i + 2].type = "mouseup"
                /\ events[i + 3].type = "click")
               => "onMilestoneClick" \notin events[i + 3].called
        /\ renderer.isDragging
               => /\ renderer.selectedMilestone # << >>
                  /\ \E i \in 1..Len(events) :
                         /\ events[i].type = "mousedown"
                         /\ events[i].onMilestone
                         /\ \A j \in (i + 1)..Len(events) :
                                events[j].type # "mouseup"

\* ------------------------------------------------------------------------
\* Properties of ProjectStorage
\* ------------------------------------------------------------------------
\* C28: after any sequence of saveCurrentProject and deleteProject calls
\* the projects list has at most 20 entries, no two of them with the same
\* id; after a saveCurrentProject the saved project is in the list; after
\* a deleteProject the deleted id is neither in the list nor in the
\* current-project slot.
C28_ProjectsListKept ==
    LET projects == storage[Browser].projects
        current == storage[Browser].current
        listed == {projects[i].id : i \in 1..Len(projects)}
    IN  /\ Len(projects) <= 20
        /\ \A i, j \in 1..Len(projects) :
               projects[i].id = projects[j].id => i = j
        /\ res.op = "saveCurrentProject" => res.id \in listed
        /\ res.op = "deleteProject"
               => /\ res.id \notin listed
                  /\ current = << >> \/ current[1].project.id # res.id

=============================================================================
